---- MODULE Spec2Model ----
(***************************************************************************)
(* A model of the asynchronous nonprofit scraper                           *)
(* (src/async_nonprofit_scraper.py): EIN discovery with pagination and     *)
(* de-duplication, the filing selector, the document extraction chain and  *)
(* the batch scheduler with its two semaphores.                            *)
(*                                                                         *)
(* Python values are modelled as tagged records so that a number, None and *)
(* the sentinel strings ("N/A", "ERROR", ...) can be compared:             *)
(*   None      the Python None                                             *)
(*   Num(n)    the number n                                                *)
(*   Str(s)    the string s                                                *)
(* Money read from the registry is in whole dollars.  The compensation     *)
(* percentage is a fraction; it is held in units of 1/10000.  A value      *)
(* rounded to two decimals is held in hundredths (cents).                  *)
(***************************************************************************)
EXTENDS Integers, Sequences, FiniteSets, TLC

None == [tag |-> "None", val |-> 0]
Num(n) == [tag |-> "num", val |-> n]
Str(s) == [tag |-> s, val |-> 0]
NA == Str("N/A")
IsNum(v) == v.tag = "num"

(***************************************************************************)
(* Bounds of the filing histories the selector is run on.                  *)
(***************************************************************************)
MaxWithData == 2
MaxWithoutData == 1

\* tax_prd_yr of a filing; 0 is what filing.get("tax_prd_yr", 0) gives for a
\* filing without the key.
YearValues == {0, 2019, 2021}

\* The inline fields (totrevenue, totfuncexpns, pct_compnsatncurrofcr) of a
\* filing of filings_with_data.
InlineCases ==
  { [r |-> Num(500000), e |-> Num(400000), p |-> Num(1000)],
    [r |-> Num(7),      e |-> Num(3),      p |-> Num(1255)],
    [r |-> Num(500000), e |-> Num(0),      p |-> Num(0)],
    [r |-> None,        e |-> Num(400000), p |-> Num(1000)],
    [r |-> Num(0),      e |-> Num(3),      p |-> Num(1234)],
    [r |-> Num(500000), e |-> None,        p |-> Num(1000)],
    [r |-> Num(500000), e |-> Num(400000), p |-> None],
    [r |-> Num(500000), e |-> Num(400000), p |-> Num(-1)],
    [r |-> None,        e |-> None,        p |-> None] }

Filing(y, d, u) ==
  [tax_prd_yr |-> y, totrevenue |-> d.r, totfuncexpns |-> d.e,
   pct_compnsatncurrofcr |-> d.p, pdf_url |-> u]

NoInline == [r |-> None, e |-> None, p |-> None]

\* The filings the selector is run on.  The selector does not read pdf_url.
FilingsWithData == { Filing(y, d, "url") : y \in YearValues, d \in InlineCases }
FilingsWithoutData == { Filing(y, NoInline, "absent") : y \in YearValues }

SeqsUpTo(S, n) == UNION { [1..k -> S] : k \in 0..n }

\* The registry's detail response: the filing history in its two lists.
OrgDetails(with, without) == [filings_with_data |-> with, filings_without_data |-> without]

WithDataLists == SeqsUpTo(FilingsWithData, MaxWithData)
WithoutDataLists == SeqsUpTo(FilingsWithoutData, MaxWithoutData)

(***************************************************************************)
(* extract_latest_filing_info_sync                                         *)
(***************************************************************************)
NewerOrEqual(year, most_recent_year) == year >= most_recent_year

\* "if year > most_recent_year"
Newer(year, most_recent_year) == year > most_recent_year

\* most_recent_year = 0; most_recent_filing = None; is_filing_with_data = False.
\* pos is the place of the filing in filings_with_data + filings_without_data
\* (0: no filing): it stands for the identity of the selected dict.
NoSelection ==
  [most_recent_year |-> 0, found |-> FALSE, most_recent_filing |-> Filing(0, NoInline, "absent"),
   is_filing_with_data |-> FALSE, pos |-> 0]

\* One "for filing in <list>" loop of the selector, from element i on.
RECURSIVE ScanFilings(_, _, _, _, _)
ScanFilings(filings, i, with_data, offset, acc) ==
  IF i > Len(filings) THEN acc
  ELSE LET filing == filings[i]
           year == filing.tax_prd_yr
           next == IF Newer(year, acc.most_recent_year)
                   THEN [most_recent_year |-> year, found |-> TRUE,
                         most_recent_filing |-> filing,
                         is_filing_with_data |-> with_data, pos |-> offset + i]
                   ELSE acc
       IN ScanFilings(filings, i + 1, with_data, offset, next)

\* filings_with_data + filings_without_data
Combined(d) == d.filings_with_data \o d.filings_without_data

\* The two loops: filings_with_data, then filings_without_data.
MostRecent(org_details) ==
  LET a == ScanFilings(org_details.filings_with_data, 1, TRUE, 0, NoSelection)
  IN ScanFilings(org_details.filings_without_data, 1, FALSE,
                 Len(org_details.filings_with_data), a)

\* Python's round(x, 2) for x given in units of 1/10000, result in hundredths:
\* to the nearest hundredth, a tie to the even one.
Round2(x) ==
  LET q == x \div 100
      r == x % 100
  IN IF r < 50 THEN q
     ELSE IF r > 50 THEN q + 1
     ELSE IF q % 2 = 0 THEN q ELSE q + 1

HasRevenueOrZero(filing) == IsNum(filing.totrevenue) /\ filing.totrevenue.val >= 0

\* has_revenue = revenue is not None and revenue > 0
HasRevenue(filing) == IsNum(filing.totrevenue) /\ filing.totrevenue.val > 0

\* has_comp = expenses is not None and comp_percent is not None and comp_percent >= 0
HasComp(filing) ==
  /\ IsNum(filing.totfuncexpns)
  /\ IsNum(filing.pct_compnsatncurrofcr)
  /\ filing.pct_compnsatncurrofcr.val >= 0

\* round(expenses * comp_percent, 2)
CompOf(filing) == Round2(filing.totfuncexpns.val * filing.pct_compnsatncurrofcr.val)

SelectorResult(year, revenue, exec_comp, data_source) ==
  [filing_year |-> year, revenue |-> revenue, exec_comp |-> exec_comp,
   data_source |-> data_source]

\* The branch taken for a selected filing of filings_with_data that has
\* has_revenue or has_comp but not both.
PartialResult(s) ==
  LET f == s.most_recent_filing
  IN SelectorResult(s.most_recent_year,
                    IF HasRevenue(f) THEN f.totrevenue ELSE NA,
                    IF HasComp(f) THEN Num(CompOf(f)) ELSE NA,
                    "api")

\* "round(expenses * comp_percent, 2) if expenses and comp_percent else 0"
CompleteResult(s) ==
  LET f == s.most_recent_filing
  IN SelectorResult(s.most_recent_year, f.totrevenue,
                    IF f.totfuncexpns.val # 0 /\ f.pct_compnsatncurrofcr.val # 0
                    THEN Num(CompOf(f)) ELSE Num(0),
                    "api")

\* The selector with the partial branch taken by every structured filing that
\* is not complete ("else" for "elif has_revenue or has_comp").
extract_latest_filing_info_sync_else(org_details) ==
  LET s == MostRecent(org_details)
      f == s.most_recent_filing
  IN IF ~s.found THEN SelectorResult(0, NA, NA, "none")
     ELSE IF s.is_filing_with_data /\ HasRevenue(f) /\ HasComp(f) THEN CompleteResult(s)
     ELSE IF s.is_filing_with_data THEN PartialResult(s)
     ELSE SelectorResult(s.most_recent_year, NA, NA, "pdf_needed")

extract_latest_filing_info_sync(org_details) ==
  LET s == MostRecent(org_details)
      f == s.most_recent_filing
  IN IF ~s.found THEN SelectorResult(0, NA, NA, "none")
     ELSE IF s.is_filing_with_data /\ HasRevenue(f) /\ HasComp(f) THEN CompleteResult(s)
     ELSE IF s.is_filing_with_data /\ (HasRevenue(f) \/ HasComp(f)) THEN PartialResult(s)
     ELSE SelectorResult(s.most_recent_year, NA, NA, "pdf_needed")

(***************************************************************************)
(* download_pdf_async and extract_financials_async                         *)
(***************************************************************************)
\* An exception: its class and, for aiohttp.ClientResponseError, its status.
Exc(type, status) == [type |-> type, status |-> status]
NoExc == Exc("none", 0)

\* What one session.get of the document gives: "pdf" is a 200 response whose
\* body starts with %PDF, "html" a 200 response with another body, a number
\* is the HTTP status of an error response, "timeout" is a transport failure
\* (asyncio.TimeoutError, aiohttp.ClientConnectionError).
GetOutcomes == {"pdf", "html", "403", "404", "429", "500", "timeout"}
StatusOf(g) ==
  IF g = "403" THEN 403 ELSE IF g = "404" THEN 404
  ELSE IF g = "429" THEN 429 ELSE IF g = "500" THEN 500 ELSE 200

\* response.raise_for_status() followed by response.read(), then the %PDF test.
ReadBody(g, gets) ==
  IF g = "timeout" THEN [raised |-> TRUE, exc |-> Exc("TimeoutError", 0), gets |-> gets]
  ELSE IF StatusOf(g) >= 400
    THEN [raised |-> TRUE, exc |-> Exc("ClientResponseError", StatusOf(g)), gets |-> gets]
  ELSE IF g # "pdf" THEN [raised |-> TRUE, exc |-> Exc("ValueError", 0), gets |-> gets]
  ELSE [raised |-> FALSE, exc |-> NoExc, gets |-> gets]

\* download_pdf_async with the second request after every HTTP error status.
download_pdf_async_any_status(first, second) ==
  IF StatusOf(first) >= 400 THEN ReadBody(second, 2) ELSE ReadBody(first, 1)

\* download_pdf_async: first is the answer to the request with the browser
\* headers, second the answer to the request with the alternate headers.
\* gets counts the requests made for the document.
download_pdf_async(first, second) ==
  IF first = "403" THEN ReadBody(second, 2) ELSE ReadBody(first, 1)

\* (revenue, exec_comp, error_type) returned, or an exception propagated.
\* calls: the collaborator calls made ("download", "ai", "ocr").
Returned(revenue, exec_comp, error_type, calls) ==
  [raised |-> FALSE, exc |-> NoExc, revenue |-> revenue, exec_comp |-> exec_comp,
   error_type |-> error_type, calls |-> calls]
Propagated(exc, calls) ==
  [raised |-> TRUE, exc |-> exc, revenue |-> None, exec_comp |-> None,
   error_type |-> "raised", calls |-> calls]

\* result.get(key) or "N/A"
OrNA(v) == IF v = None \/ v = Num(0) THEN NA ELSE v

\* What gemini_parser.parse_with_retry returns: success with the two values
\* (each a number or None), or a failure whose error message is described by
\* the vocabulary it contains.
AiOutcomes ==
  { [success |-> TRUE, total_revenue |-> r, total_executive_compensation |-> c,
     rate |-> FALSE, quota |-> FALSE, code429 |-> FALSE] :
       r \in {None, Num(0), Num(900)}, c \in {None, Num(50)} }
  \cup
  { [success |-> FALSE, total_revenue |-> None, total_executive_compensation |-> None,
     rate |-> a, quota |-> b, code429 |-> c] : a \in BOOLEAN, b \in BOOLEAN, c \in BOOLEAN }

\* The test without "429".
IsRateLimitMessageWords(ai) == ai.rate \/ ai.quota

\* "rate" in error_msg or "quota" in error_msg or "429" in error_msg
IsRateLimitMessage(ai) == ai.rate \/ ai.quota \/ ai.code429

\* What form_parser.parse_990_form returns: success with
\* financial_data["total_revenue"] (a number or None) and the sum of the
\* executive_compensation dict (empty: None), or a failure.
OcrOutcomes ==
  { [success |-> TRUE, total_revenue |-> r, comp_sum |-> c] :
       r \in {None, Num(800)}, c \in {None, Num(60)} }
  \cup { [success |-> FALSE, total_revenue |-> None, comp_sum |-> None] }

\* The document as the pattern parser meets it: download (it gets the PDF
\* bytes), text ("none", "short": under 100 characters, "long"), raises (a
\* step raises an exception), and what its patterns find in the text:
\* revenue for total_revenue (None: no pattern matches) and comp, the sum of
\* the executive compensation entries (None: no entry).
OcrDocuments ==
  [download : BOOLEAN, text : {"none", "short", "long"}, raises : BOOLEAN,
   revenue : {None, Num(800)}, comp : {None, Num(60)}]

\* Form990Parser.parse_990_form
parse_990_form(doc) ==
  IF doc.raises \/ ~doc.download \/ doc.text # "long"
  THEN [success |-> FALSE, total_revenue |-> None, comp_sum |-> None]
  ELSE [success |-> TRUE, total_revenue |-> doc.revenue, comp_sum |-> doc.comp]

\* financial_data.get("total_revenue", "N/A"); sum(values) if executive_comp else "N/A"
OcrValues(ocr, tag, calls) ==
  Returned(ocr.total_revenue, IF ocr.comp_sum = None THEN NA ELSE ocr.comp_sum, tag, calls)

\* The requests download_pdf_async made for the document: "download" with the
\* browser headers, "download_alt" with the alternate headers.
DownloadCalls(d) == IF d.gets = 2 THEN {"download", "download_alt"} ELSE {"download"}

\* The body of the try block of extract_financials_async.
ExtractBody(pdf_url, parsing_method, first, second, ai, ocr) ==
  IF pdf_url \in {"absent", "", "null"} THEN Returned(NA, NA, "no_pdf_url", {})
  ELSE LET d == download_pdf_async(first, second)
           got == DownloadCalls(d)
       IN IF d.raised THEN Propagated(d.exc, got)
          ELSE IF parsing_method = "gemini"
            THEN IF ai.success
                 THEN Returned(OrNA(ai.total_revenue), OrNA(ai.total_executive_compensation),
                               "success", got \cup {"ai"})
                 ELSE IF IsRateLimitMessage(ai)
                   THEN Returned(Str("RATE_LIMIT"), Str("RATE_LIMIT"), "rate_limit",
                                 got \cup {"ai"})
                 ELSE IF ocr.success THEN OcrValues(ocr, "ocr_fallback", got \cup {"ai", "ocr"})
                 ELSE Returned(Str("PARSE_FAILED"), Str("PARSE_FAILED"), "parse_failed",
                               got \cup {"ai", "ocr"})
          ELSE IF ocr.success THEN OcrValues(ocr, "success", got \cup {"ocr"})
          ELSE Returned(Str("PARSE_FAILED"), Str("PARSE_FAILED"), "parse_failed",
                        got \cup {"ocr"})

\* The handlers without the final "except Exception".
HandleOnlyResponseErrors(b) ==
  IF ~b.raised THEN b
  ELSE IF b.exc.type = "ClientResponseError"
    THEN IF b.exc.status = 403
         THEN Returned(Str("DOWNLOAD_FORBIDDEN"), Str("DOWNLOAD_FORBIDDEN"), "download_403", b.calls)
         ELSE IF b.exc.status = 429
           THEN Returned(Str("RATE_LIMIT"), Str("RATE_LIMIT"), "rate_limit", b.calls)
         ELSE Returned(Str("DOWNLOAD_ERROR"), Str("DOWNLOAD_ERROR"), "download_error", b.calls)
  ELSE b

\* "except aiohttp.ClientResponseError" and "except Exception" of
\* extract_financials_async, applied to the outcome b of the try block.
HandleExceptions(b) ==
  IF ~b.raised THEN b
  ELSE IF b.exc.type = "ClientResponseError"
    THEN IF b.exc.status = 403
         THEN Returned(Str("DOWNLOAD_FORBIDDEN"), Str("DOWNLOAD_FORBIDDEN"), "download_403", b.calls)
         ELSE IF b.exc.status = 429
           THEN Returned(Str("RATE_LIMIT"), Str("RATE_LIMIT"), "rate_limit", b.calls)
         ELSE Returned(Str("DOWNLOAD_ERROR"), Str("DOWNLOAD_ERROR"), "download_error", b.calls)
  ELSE Returned(Str("ERROR"), Str("ERROR"), "unexpected_error", b.calls)

extract_financials_async(pdf_url, parsing_method, first, second, ai, ocr) ==
  HandleExceptions(ExtractBody(pdf_url, parsing_method, first, second, ai, ocr))

\* filing.get("pdf_url"): absent (None), empty, the string "null", or a URL.
PdfUrls == {"absent", "", "null", "url"}
ParsingMethods == {"gemini", "ocr"}

ExtractInputs ==
  [pdf_url : PdfUrls, parsing_method : ParsingMethods, first : GetOutcomes,
   second : GetOutcomes, ai : AiOutcomes, ocr : OcrOutcomes]

(***************************************************************************)
(* EIN discovery: get_eins_by_search_async, collect_eins_for_query_async   *)
(* and the search loop of scrape_async                                     *)
(***************************************************************************)
NumEins == 3         \* the registry knows the EINs 1..NumEins
NumTerms == 2        \* len(search_terms)
MaxPage == 3         \* the registry holds no page beyond MaxPage
MaxPageOrgs == 2     \* organizations on one page of search results

MaxConsecutiveErrors == 3

Eins == 1..NumEins

\* What the registry answers to one search request: HTTP 404, a failure
\* (timeout, another HTTP error status, a body that is not the expected JSON:
\* whatever raises inside the try block), or a JSON body with the "ein"s of
\* its "organizations" list (possibly empty).
SearchResponses ==
  { [kind |-> "404", orgs |-> <<>>], [kind |-> "error", orgs |-> <<>>] }
  \cup { [kind |-> "json", orgs |-> o] : o \in SeqsUpTo(Eins, MaxPageOrgs) }

EndResponses == { r \in SearchResponses : r.kind = "404" \/ (r.kind = "json" /\ r.orgs = <<>>) }

\* The result of get_eins_by_search_async: None, or a list; the new value of
\* self.processed_eins; raised: an exception left the function.
SearchResult(none, eins, processed, raised) ==
  [none |-> none, eins |-> eins, processed |-> processed, raised |-> raised]

\* The loop without "if ein not in self.processed_eins".
RECURSIVE ScanOrgsNoCheck(_, _, _, _)
ScanOrgsNoCheck(orgs, i, eins, processed) ==
  IF i > Len(orgs) THEN SearchResult(FALSE, eins, processed, FALSE)
  ELSE ScanOrgsNoCheck(orgs, i + 1, Append(eins, orgs[i]), processed \cup {orgs[i]})

\* "for org in response_orgs", from entry i on.
RECURSIVE ScanOrgs(_, _, _, _)
ScanOrgs(orgs, i, eins, processed) ==
  IF i > Len(orgs) THEN SearchResult(FALSE, eins, processed, FALSE)
  ELSE IF orgs[i] \notin processed
    THEN ScanOrgs(orgs, i + 1, Append(eins, orgs[i]), processed \cup {orgs[i]})
  ELSE ScanOrgs(orgs, i + 1, eins, processed)

\* get_eins_by_search_async with an empty "organizations" list taken for a
\* page without new EINs.
get_eins_by_search_async_no_end(resp, processed) ==
  IF resp.kind = "404" THEN SearchResult(TRUE, <<>>, processed, FALSE)
  ELSE IF resp.kind = "error" THEN SearchResult(FALSE, <<>>, processed, FALSE)
  ELSE ScanOrgs(resp.orgs, 1, <<>>, processed)

get_eins_by_search_async(resp, processed) ==
  IF resp.kind = "404" THEN SearchResult(TRUE, <<>>, processed, FALSE)
  ELSE IF resp.kind = "error" THEN SearchResult(FALSE, <<>>, processed, FALSE)
  ELSE IF resp.orgs = <<>> THEN SearchResult(TRUE, <<>>, processed, FALSE)
  ELSE ScanOrgs(resp.orgs, 1, <<>>, processed)

\* The locals of collect_eins_for_query_async; done: the loop was left.
Paging(all, pg, errors, done) ==
  [all_eins |-> all, page |-> pg, consecutive_errors |-> errors, done |-> done]

\* One pass of "while consecutive_errors < 3" for the result r of the search
\* request: the except branch for a raised r, else the three cases of eins.
LoopPass(l, r) ==
  IF r.raised
  THEN Paging(l.all_eins, l.page, l.consecutive_errors + 1,
              l.consecutive_errors + 1 >= MaxConsecutiveErrors)
  ELSE IF r.none THEN Paging(l.all_eins, l.page, l.consecutive_errors, TRUE)
  ELSE IF r.eins # <<>> THEN Paging(l.all_eins \o r.eins, l.page + 1, 0, FALSE)
  ELSE Paging(l.all_eins, l.page + 1, l.consecutive_errors, FALSE)

\* How a search request ended, as seen from outside the program.
FetchKind(resp, r) ==
  IF resp \in EndResponses THEN "end"
  ELSE IF resp.kind = "error" THEN "failed"
  ELSE IF r.eins # <<>> THEN "eins"
  ELSE "known"

\* The response names an EIN that was returned before, or names one twice.
OffersDuplicate(resp, processed) ==
  \E i \in 1..Len(resp.orgs) :
    \/ resp.orgs[i] \in processed
    \/ \E j \in 1..(i - 1) : resp.orgs[j] = resp.orgs[i]

NoFetch == [term |-> 0, page |-> 0, kind |-> "none"]

(***************************************************************************)
(* process_organization_async and process_query_batch_async                *)
(***************************************************************************)
BatchSize == 2            \* batch_size
MaxConcurrentApi == 1     \* max_concurrent_api
MaxConcurrentPdf == 1     \* max_concurrent_pdf

\* The progress counters of the scraper.
Counters(total, completed, api, pdf, na, error, rate_limit) ==
  [total_orgs |-> total, completed_orgs |-> completed, api_count |-> api,
   pdf_count |-> pdf, na_count |-> na, error_count |-> error,
   rate_limit_count |-> rate_limit]

\* "Update counters" and "self.completed_orgs += 1"
Count(c, data_source) ==
  [c EXCEPT !.api_count = @ + (IF data_source = "api" THEN 1 ELSE 0),
            !.pdf_count = @ + (IF data_source = "pdf" THEN 1 ELSE 0),
            !.rate_limit_count = @ + (IF data_source = "rate_limit" THEN 1 ELSE 0),
            !.error_count = @ + (IF data_source = "error" THEN 1 ELSE 0),
            !.na_count = @ + (IF data_source \notin {"api", "pdf", "rate_limit", "error"}
                              THEN 1 ELSE 0),
            !.completed_orgs = @ + 1]

\* What a task of asyncio.gather(..., return_exceptions=True) ends with: the
\* dict process_organization_async returns, or the exception it raised.
ResultDict(name, ein, filing_year, revenue, exec_comp, data_source) ==
  [kind |-> "dict", name |-> name, ein |-> ein, filing_year |-> filing_year,
   revenue |-> revenue, exec_comp |-> exec_comp, data_source |-> data_source]
ResultException(ein) ==
  [kind |-> "exception", name |-> "", ein |-> ein, filing_year |-> 0,
   revenue |-> None, exec_comp |-> None, data_source |-> ""]
NoResult ==
  [kind |-> "pending", name |-> "", ein |-> 0, filing_year |-> 0,
   revenue |-> None, exec_comp |-> None, data_source |-> ""]

\* The end of process_organization_async: the result and the counters.
Ended(result, counters) == [result |-> result, counters |-> counters]

\* The normal end: counters, then the returned dict.
ReturnRow(ein, filing_year, revenue, exec_comp, data_source, c) ==
  Ended(ResultDict("Org", ein, filing_year, revenue, exec_comp, data_source),
        Count(c, data_source))

\* process_organization_async without its "except Exception".
RaiseToGather(ein, c) == Ended(ResultException(ein), c)

\* The "except Exception" branch without "self.completed_orgs += 1".
OnExceptionErrorOnly(ein, c) ==
  Ended(ResultDict("Error", ein, 0, Str("ERROR"), Str("ERROR"), "error"),
        [c EXCEPT !.error_count = @ + 1])

\* The "except Exception" branch of process_organization_async.
OnException(ein, c) ==
  Ended(ResultDict("Error", ein, 0, Str("ERROR"), Str("ERROR"), "error"),
        [c EXCEPT !.completed_orgs = @ + 1, !.error_count = @ + 1])

\* The categories with "error" for every error_type that is not named.
CategorizeElseError(error_type) ==
  IF error_type \in {"success", "ocr_fallback"} THEN "pdf"
  ELSE IF error_type = "rate_limit" THEN "rate_limit"
  ELSE "error"

\* "Categorize the result": the data_source for an error_type.
Categorize(error_type) ==
  IF error_type \in {"success", "ocr_fallback"} THEN "pdf"
  ELSE IF error_type = "rate_limit" THEN "rate_limit"
  ELSE IF error_type \in {"parse_failed", "download_403", "download_error", "unexpected_error"}
    THEN "error"
  ELSE "none"

\* The loop over filings_without_data + filings_with_data.
FilingToParseUnstructuredFirst(org_details) ==
  ScanFilings(org_details.filings_without_data \o org_details.filings_with_data, 1, FALSE, 0,
              NoSelection)

\* "Find the filing to parse": one loop over
\* filings_with_data + filings_without_data.
FilingToParse(org_details) ==
  ScanFilings(Combined(org_details), 1, FALSE, 0, NoSelection)

\* Truth value of most_recent_filing.get("pdf_url")
Truthy(pdf_url) == pdf_url \notin {"absent", ""}

\* process_organization_async from the answer to the detail request on: it
\* ends (stop, with `end`), or it calls extract_financials_async for pdf_url.
Stops(end) == [stop |-> TRUE, filing_year |-> 0, pdf_url |-> "", end |-> end]
Extracts(filing_year, pdf_url) ==
  [stop |-> FALSE, filing_year |-> filing_year, pdf_url |-> pdf_url,
   end |-> Ended(NoResult, Counters(0, 0, 0, 0, 0, 0, 0))]

\* resp.kind: "429" and "error" make get_organization_details_async raise, a
\* body "no_name" has no organization.name, the filings of a body "bad_filing"
\* make the selector raise; "ok" is a body with the filing history
\* resp.details.
AfterDetails(ein, resp, c) ==
  IF resp.kind # "ok" THEN Stops(OnException(ein, c))
  ELSE LET sel == extract_latest_filing_info_sync(resp.details)
           pick == FilingToParse(resp.details)
       IN IF sel.data_source # "pdf_needed"
          THEN Stops(ReturnRow(ein, sel.filing_year, sel.revenue, sel.exec_comp,
                               sel.data_source, c))
          ELSE IF pick.found /\ Truthy(pick.most_recent_filing.pdf_url)
            THEN Extracts(sel.filing_year, pick.most_recent_filing.pdf_url)
          ELSE Stops(ReturnRow(ein, sel.filing_year, NA, NA, "none", c))

\* process_organization_async from the outcome `out` of
\* extract_financials_async on.
AfterExtract(ein, filing_year, out, c) ==
  IF out.raised THEN OnException(ein, c)
  ELSE ReturnRow(ein, filing_year, out.revenue, out.exec_comp, Categorize(out.error_type), c)

\* What the registry answers to a detail request in a run: an HTTP 429, another
\* failure (timeout, HTTP error), a body without organization.name, a body
\* whose filings make the selector raise (a tax_prd_yr that is no number), or
\* a filing history.
RunHistories ==
  { OrgDetails(<<Filing(2021, [r |-> Num(500000), e |-> Num(400000), p |-> Num(1000)], "url")>>, <<>>),
    OrgDetails(<<Filing(2019, [r |-> Num(500000), e |-> Num(400000), p |-> Num(1000)], "url")>>,
               <<Filing(2021, NoInline, "url")>>),
    OrgDetails(<<>>, <<Filing(2021, NoInline, "null")>>),
    OrgDetails(<<>>, <<Filing(2021, NoInline, "absent")>>) }

DetailAnswers ==
  { [kind |-> k, details |-> OrgDetails(<<>>, <<>>)] : k \in {"429", "error", "no_name", "bad_filing"} }
  \cup { [kind |-> "ok", details |-> d] : d \in RunHistories }

\* What the collaborators answer during the extraction of one document in a run.
RunGets == {"pdf", "429"}
RunAiOutcomes ==
  { ai \in AiOutcomes :
      \/ ai.success /\ ai.total_revenue = Num(900) /\ ai.total_executive_compensation = Num(50)
      \/ ~ai.success /\ ~ai.quota /\ ~ai.code429 }
RunOcrOutcomes ==
  { o \in OcrOutcomes : (o.success /\ o.total_revenue = Num(800) /\ o.comp_sum = Num(60))
                        \/ ~o.success }

\* The outcomes of extract_financials_async for a document in a run, by
\* parsing method, over these answers.
RunExtractOutcomes ==
  [ m \in ParsingMethods |->
      { extract_financials_async("url", m, first, second, ai, ocr) :
          first \in RunGets, second \in RunGets, ai \in RunAiOutcomes, ocr \in RunOcrOutcomes } ]

\* The state of one task of a batch.
\* pc: "api_wait" (waiting for self.api_semaphore), "in_api" (holding it, in
\* the detail request), "pdf_wait" (waiting for self.pdf_semaphore), "in_pdf"
\* (holding it, in download and parsing), "done".
Task(ein, pc, filing_year, pdf_url, result) ==
  [ein |-> ein, pc |-> pc, filing_year |-> filing_year, pdf_url |-> pdf_url,
   result |-> result]

\* The tasks of a batch right after asyncio.gather started them, in order:
\* each runs up to its first suspension, so the first `free` of them take a
\* slot of the api semaphore and the others wait for one.
RECURSIVE NewTasks(_, _, _)
NewTasks(batch, k, free) ==
  IF k > Len(batch) THEN <<>>
  ELSE <<Task(batch[k], IF free > 0 THEN "in_api" ELSE "api_wait", 0, "", NoResult)>>
       \o NewTasks(batch, k + 1, IF free > 0 THEN free - 1 ELSE 0)

Min(x, y) == IF x < y THEN x ELSE y

\* eins[i:i + batch_size], with i counted from 0
Slice(eins, i, size) == SubSeq(eins, i + 1, Min(i + size, Len(eins)))

\* "for result in batch_results: if isinstance(result, dict): append"
RECURSIVE Rows(_, _)
Rows(ts, k) ==
  IF k > Len(ts) THEN <<>>
  ELSE (IF ts[k].result.kind = "dict"
        THEN <<[name |-> ts[k].result.name, ein |-> ts[k].result.ein,
                filing_year |-> ts[k].result.filing_year,
                revenue |-> ts[k].result.revenue, exec_comp |-> ts[k].result.exec_comp]>>
        ELSE <<>>) \o Rows(ts, k + 1)

(***************************************************************************)
(* process_organization_async for one organization                         *)
(***************************************************************************)
\* Filings of the histories of one organization: structured ones with complete
\* inline data or with none, unstructured ones, with and without a document.
OrgWithData ==
  { Filing(y, [r |-> Num(500000), e |-> Num(400000), p |-> Num(1000)], "url") : y \in {2019, 2021} }
  \cup { Filing(y, NoInline, u) : y \in {2019, 2021}, u \in {"url", "absent"} }
OrgWithoutData == { Filing(y, NoInline, u) : y \in {0, 2021}, u \in PdfUrls }

\* The answers to the detail request of one organization.
OrgAnswers ==
  { [kind |-> k, details |-> OrgDetails(<<>>, <<>>)] : k \in {"429", "error", "no_name", "bad_filing"} }
  \cup { [kind |-> "ok", details |-> OrgDetails(w, wo)] :
           w \in SeqsUpTo(OrgWithData, 1), wo \in SeqsUpTo(OrgWithoutData, 1) }

\* The answers of the AI parser and of the pattern parser for its document.
OrgAiOutcomes ==
  { ai \in AiOutcomes :
      \/ ai.success /\ ai.total_revenue = Num(900) /\ ai.total_executive_compensation = Num(50)
      \/ ~ai.success /\ ~ai.quota /\ ~(ai.rate /\ ai.code429) }
OrgOcrOutcomes ==
  { o \in OcrOutcomes : (o.success /\ o.total_revenue = Num(800) /\ o.comp_sum = Num(60))
                        \/ ~o.success }

OrgInputs ==
  [answer : OrgAnswers, parsing_method : ParsingMethods, first : GetOutcomes,
   second : GetOutcomes, ai : OrgAiOutcomes, ocr : OrgOcrOutcomes]

\* What process_organization_async did: its result and the counters after it;
\* extracted: it called extract_financials_async, which made `calls` and
\* returned error_type.
OrgOutcome(end, extracted, calls, error_type) ==
  [result |-> end.result, counters |-> end.counters, extracted |-> extracted,
   calls |-> calls, error_type |-> error_type]

(***************************************************************************)
(* Form990Parser.determine_form_version and the pattern set of             *)
(* parse_990_form                                                          *)
(***************************************************************************)
NumPostIndicators == 5     \* len(post_2008_indicators)
NumPreIndicators == 3      \* len(pre_2008_indicators)

\* The indicator patterns that re.search finds in the text.
IndicatorMatches ==
  [post : SUBSET (1..NumPostIndicators), pre : SUBSET (1..NumPreIndicators)]

\* determine_form_version from the two scores on.
determine_form_version(post_2008_score, pre_2008_score) ==
  IF post_2008_score > pre_2008_score /\ post_2008_score > 0 THEN "post_2008"
  ELSE IF pre_2008_score > 0 THEN "pre_2008"
  ELSE "unknown"

\* Steps 3 and 4 of parse_990_form: UNKNOWN becomes POST_2008, and
\* extract_financial_data takes the pattern set of the version.
PatternSet(form_version) ==
  LET v == IF form_version = "unknown" THEN "post_2008" ELSE form_version
  IN IF v = "post_2008" THEN "post_2008_patterns" ELSE "pre_2008_patterns"

(***************************************************************************)
(* Form990Parser._calculate_confidence_score                               *)
(***************************************************************************)
\* The fields of ParsedFinancialData that the score looks at.  The financial
\* values are None or a number; executive_compensation stands for "the dict
\* is not empty", organization_name and tax_year for "the value is truthy".
ParsedData ==
  [total_revenue : {None, Num(0), Num(100), Num(-100)},
   total_expenses : {None, Num(70)},
   contributions_grants : {None, Num(0), Num(40), Num(90)},
   program_service_revenue : {None, Num(0), Num(50)},
   executive_compensation : BOOLEAN,
   organization_name : BOOLEAN,
   tax_year : BOOLEAN]

\* The weights, in hundredths: 0.3 is 30.
Weight ==
  [total_revenue |-> 30, total_expenses |-> 20, contributions_grants |-> 10,
   program_service_revenue |-> 10, executive_compensation |-> 15,
   organization_name |-> 10, tax_year |-> 5, validation |-> 10]

Abs(x) == IF x < 0 THEN -x ELSE x

\* Truth value of a number or None
TruthyValue(v) == IsNum(v) /\ v.val # 0

\* "abs(components_sum - data.total_revenue) / data.total_revenue < 0.2" for
\* total_revenue # 0: a quotient that is negative or zero when total_revenue
\* is negative.
Consistent(data) ==
  LET components_sum == data.contributions_grants.val + data.program_service_revenue.val
      total == data.total_revenue.val
  IN IF total > 0 THEN 5 * Abs(components_sum - total) < total ELSE TRUE

\* The points of the fields that are present; score and max_score both get
\* them.
PresentWeight(data) ==
  (IF data.total_revenue # None THEN Weight.total_revenue ELSE 0)
  + (IF data.total_expenses # None THEN Weight.total_expenses ELSE 0)
  + (IF data.contributions_grants # None THEN Weight.contributions_grants ELSE 0)
  + (IF data.program_service_revenue # None THEN Weight.program_service_revenue ELSE 0)
  + (IF data.executive_compensation THEN Weight.executive_compensation ELSE 0)
  + (IF data.organization_name THEN Weight.organization_name ELSE 0)
  + (IF data.tax_year THEN Weight.tax_year ELSE 0)

\* _calculate_confidence_score: score and max_score in hundredths; the value
\* returned is score / max_score (0.0 if max_score is 0).
calculate_confidence_score(data) ==
  LET bonus == IF /\ TruthyValue(data.total_revenue)
                  /\ TruthyValue(data.contributions_grants)
                  /\ TruthyValue(data.program_service_revenue)
                  /\ Consistent(data)
               THEN Weight.validation ELSE 0
  IN [score |-> PresentWeight(data) + bonus,
      max_score |-> PresentWeight(data) + Weight.validation]

(***************************************************************************)
(* Form990Parser._clean_financial_value                                    *)
(***************************************************************************)
\* A Python str is a sequence of characters.  A float that float() makes of
\* a string of decimal digits is kept as its sign and its digits without
\* leading zeros: every digit string of up to 15 digits is a float exactly,
\* and longer ones are far above the limit of the sanity check.
Digits == {"0", "1", "2", "3", "4", "5", "6", "7", "8", "9"}
Float(neg, digits) == [tag |-> "Float", neg |-> neg, digits |-> digits]

\* str.strip(): leading and trailing whitespace removed.
RECURSIVE LStrip(_)
LStrip(str) == IF str # <<>> /\ Head(str) = " " THEN LStrip(Tail(str)) ELSE str
RECURSIVE RStrip(_)
RStrip(str) ==
  IF str # <<>> /\ str[Len(str)] = " " THEN RStrip(SubSeq(str, 1, Len(str) - 1)) ELSE str
Strip(str) == RStrip(LStrip(str))

\* re.sub(r'[\$,\s]', '', cleaned)
IsFormatting(c) == c \in {"$", ",", " "}
RECURSIVE RemoveFormatting(_)
RemoveFormatting(str) ==
  IF str = <<>> THEN <<>>
  ELSE (IF IsFormatting(Head(str)) THEN <<>> ELSE <<Head(str)>>) \o RemoveFormatting(Tail(str))

IsDigitString(str) == str # <<>> /\ \A i \in 1..Len(str) : str[i] \in Digits

RECURSIVE StripZeros(_)
StripZeros(str) ==
  IF Len(str) > 1 /\ Head(str) = "0" THEN StripZeros(Tail(str)) ELSE str

\* The floats that are no decimal number: float("nan"), float("inf").
NaN == <<"n", "a", "n">>
Inf == <<"i", "n", "f">>

\* float(cleaned) for a string of digits, signs and the letters x, n, a, i,
\* f: an optional sign followed by digits is a number, an optional sign
\* followed by "nan" or "inf" is that float, anything else raises ValueError
\* (ok is FALSE).
ParseFloat(str) ==
  LET signed == str # <<>> /\ Head(str) \in {"+", "-"}
      body == IF signed THEN Tail(str) ELSE str
      neg == signed /\ Head(str) = "-"
  IN IF IsDigitString(body) THEN [ok |-> TRUE, value |-> Float(neg, StripZeros(body))]
     ELSE IF body \in {NaN, Inf} THEN [ok |-> TRUE, value |-> Float(neg, body)]
     ELSE [ok |-> FALSE, value |-> Float(FALSE, <<"0">>)]

\* 1e12
Trillion == <<"1", "0", "0", "0", "0", "0", "0", "0", "0", "0", "0", "0", "0">>

\* "abs(value) > 1e12": more digits than 1e12, or as many and not 1e12
\* itself, the smallest number of that many digits.  The comparison is true
\* of inf and false of nan.
ExceedsTrillion(value) ==
  IF value.digits = NaN THEN FALSE
  ELSE IF value.digits = Inf THEN TRUE
  ELSE \/ Len(value.digits) > Len(Trillion)
       \/ Len(value.digits) = Len(Trillion) /\ value.digits # Trillion

\* What the function is called with: a str, or the tuple of groups that
\* findall returns for a pattern with several groups.
StrArg(str) == [is_tuple |-> FALSE, str |-> str, items |-> <<>>]
TupleArg(items) == [is_tuple |-> TRUE, str |-> <<>>, items |-> items]

clean_financial_value(value_str) ==
  IF (IF value_str.is_tuple THEN value_str.items = <<>> ELSE value_str.str = <<>>)
  THEN None
  ELSE LET last == IF value_str.is_tuple THEN value_str.items[Len(value_str.items)]
                   ELSE value_str.str
           stripped == Strip(last)
           is_negative == /\ stripped # <<>>
                          /\ Head(stripped) = "("
                          /\ stripped[Len(stripped)] = ")"
           inner == IF is_negative THEN SubSeq(stripped, 2, Len(stripped) - 1) ELSE stripped
           f == ParseFloat(RemoveFormatting(inner))
           value == IF is_negative THEN Float(~f.value.neg, f.value.digits) ELSE f.value
       IN IF ~f.ok THEN None
          ELSE IF ExceedsTrillion(value) THEN None
          ELSE value

\* The strings and tuples the function is studied with: every string of up
\* to MaxStrLen characters over CleanChars, some longer ones, and tuples.
MaxStrLen == 3
CleanChars == {"$", ",", " ", "(", ")", "-", "7", "x"}
LongStrings ==
  { <<"$", "1", ",", "2", "3", "4", ",", "5", "6", "7">>,
    <<"(", "1", ",", "2", "3", "4", ")">>,
    <<"9", "9", "9", "9", "9", "9", "9", "9", "9", "9", "9", "9", "9">>,
    <<"1", "0", "0", "0", "0", "0", "0", "0", "0", "0", "0", "0", "0">>,
    <<"1", "0", "0", "0", "0", "0", "0", "0", "0", "0", "0", "0", "1">>,
    <<"(", "$", "1", ",", "0", "0", "0", ",", "0", "0", "0", ",", "0", "0", "0", ",", "0", "0", "0", ")">>,
    <<"0", "0", "1", "0", "0", "0", "0", "0", "0", "0", "0", "0", "0", "0">>,
    <<" ", "$", " ", "1", "2", " ", "3", " ">>,
    <<"n", "a", "n">>, <<"-", "n", "a", "n">>, <<"(", "n", "a", "n", ")">>, <<"n", "a">>,
    <<"i", "n", "f">>, <<"-", "i", "n", "f">>, <<"$", "n", ",", "a", " ", "n">> }
CleanStrings == SeqsUpTo(CleanChars, MaxStrLen) \cup LongStrings
CleanArgs ==
  { StrArg(str) : str \in CleanStrings }
  \cup { TupleArg(items) : items \in SeqsUpTo({<<"C", "E", "O">>, <<"7", ",", "7">>, <<>>}, 2) }

(***************************************************************************)
(* Form990Parser._extract_single_value and the total revenue of            *)
(* extract_financial_data                                                  *)
(***************************************************************************)
\* "for match in matches": the first match whose cleaned value is not None,
\* from match k on; None if there is none.
RECURSIVE FirstCleaned(_, _)
FirstCleaned(matches, k) ==
  IF k > Len(matches) THEN None
  ELSE LET cleaned_value == clean_financial_value(StrArg(matches[k]))
       IN IF cleaned_value # None THEN cleaned_value ELSE FirstCleaned(matches, k + 1)

\* _extract_single_value: found[k] is pattern.findall(text) for the k-th
\* pattern of the list.
RECURSIVE extract_single_value(_, _)
extract_single_value(found, k) ==
  IF k > Len(found) THEN None
  ELSE LET v == FirstCleaned(found[k], 1)
       IN IF v # None THEN v ELSE extract_single_value(found, k + 1)

\* Python's "a or b" for floats and None: a when a is truthy (a number other
\* than zero), else b.
IsZero(v) == v # None /\ v.digits = <<"0">>
PyOr(a, b) == IF a # None /\ ~IsZero(a) THEN a ELSE b

\* "Revenue data extraction" of extract_financial_data.
total_revenue(form_version, found) ==
  IF form_version = "post_2008"
  THEN PyOr(extract_single_value(found.total_revenue_part1, 1),
            extract_single_value(found.total_revenue_part8, 1))
  ELSE extract_single_value(found.total_revenue, 1)

\* What findall returns for one pattern: the captured [\d,]+ strings.
MatchLists ==
  { <<>>, << <<",">> >>, << <<"0">> >>, << <<"7">> >>, << <<",">>, <<"8">> >> }

\* What the patterns of the three total revenue lists (three patterns each)
\* find in a text; a text of one version is searched with its lists only.
NoMatches == << <<>>, <<>>, <<>> >>
RevenueTexts ==
  { [form_version |-> "post_2008", total_revenue_part1 |-> a, total_revenue_part8 |-> b,
     total_revenue |-> NoMatches] : a \in [1..3 -> MatchLists], b \in [1..3 -> MatchLists] }
  \cup { [form_version |-> "pre_2008", total_revenue_part1 |-> NoMatches,
          total_revenue_part8 |-> NoMatches, total_revenue |-> a] : a \in [1..3 -> MatchLists] }

(***************************************************************************)
(* GeminiPDFParser.parse_with_retry                                        *)
(***************************************************************************)
MaxRetries == 2      \* max_retries

\* _create_error_response: success False, both values None; rate, quota and
\* code429 say whether the error message contains "rate", "quota", "429".
create_error_response(rate, quota, code429) ==
  [success |-> FALSE, total_revenue |-> None, total_executive_compensation |-> None,
   rate |-> rate, quota |-> quota, code429 |-> code429]

\* response.text of the AI service.  kind: "no_json" (no "{" followed by a
\* "}"), "malformed" (json.loads raises JSONDecodeError), "invalid_schema"
\* (FinancialDataResponse(**response_data) raises), "valid" (an object with
\* the two values, each a number or null).  rate, quota, code429 describe
\* the text of the exception raised for it: a JSONDecodeError names a
\* position, which can contain 429; a validation error quotes the input.
ResponseText(kind, r, c, rate, quota, code429) ==
  [kind |-> kind, total_revenue |-> r, total_executive_compensation |-> c,
   rate |-> rate, quota |-> quota, code429 |-> code429]
ResponseTexts ==
  { ResponseText("valid", r, c, FALSE, FALSE, FALSE) :
      r \in {None, Num(0), Num(900)}, c \in {None, Num(50)} }
  \cup { ResponseText("no_json", None, None, FALSE, FALSE, FALSE) }
  \cup { ResponseText("malformed", None, None, FALSE, FALSE, c) : c \in BOOLEAN }
  \cup { ResponseText("invalid_schema", None, None, a, b, c) :
           a \in BOOLEAN, b \in BOOLEAN, c \in BOOLEAN }

\* _process_gemini_response that takes whatever object it finds for valid.
process_gemini_response_lenient(text) ==
  IF text.kind \in {"valid", "invalid_schema"}
  THEN [success |-> TRUE, total_revenue |-> text.total_revenue,
        total_executive_compensation |-> text.total_executive_compensation,
        rate |-> FALSE, quota |-> FALSE, code429 |-> FALSE]
  ELSE create_error_response(text.rate, text.quota, text.code429)

\* _process_gemini_response: "Invalid JSON response from Gemini", "JSON
\* parsing error: ...", "Response validation error: ...", or the result with
\* the two values of the object.
process_gemini_response(text) ==
  IF text.kind = "valid"
  THEN [success |-> TRUE, total_revenue |-> text.total_revenue,
        total_executive_compensation |-> text.total_executive_compensation,
        rate |-> FALSE, quota |-> FALSE, code429 |-> FALSE]
  ELSE create_error_response(text.rate, text.quota, text.code429)

\* What one submission of the document to the AI service ends with: a
\* response text, or an exception (upload_file, generate_content or
\* response.text raises) whose message is described by rate, quota, code429.
Submissions ==
  { [raises |-> FALSE, text |-> t] : t \in ResponseTexts }
  \cup { [raises |-> TRUE, text |-> ResponseText("exception", None, None, a, b, c)] :
           a \in BOOLEAN, b \in BOOLEAN, c \in BOOLEAN }

\* parse_pdf_with_gemini: the File API first; if it raises, the direct
\* content; if that raises too, the error response "Gemini API error: ..."
\* with the message of the exception.  answer: the submission the result
\* comes from; requests: the submissions made.
parse_pdf_with_gemini(file_api, direct) ==
  LET answer == IF ~file_api.raises THEN file_api ELSE direct
  IN [result |-> IF answer.raises
                 THEN create_error_response(answer.text.rate, answer.text.quota,
                                            answer.text.code429)
                 ELSE process_gemini_response(answer.text),
      answer |-> answer,
      requests |-> IF ~file_api.raises THEN 1 ELSE 2]

\* One pass of "for attempt in range(max_retries + 1)" that goes on to the
\* next attempt after a success as well.
RetryPassIgnoresSuccess(a, result) ==
  IF a = MaxRetries THEN [returned |-> TRUE, attempt |-> a]
  ELSE [returned |-> FALSE, attempt |-> a + 1]

\* One pass of "for attempt in range(max_retries + 1)" with the result of
\* parse_pdf_with_gemini: return it on success or on the last attempt, else
\* continue.
RetryPass(a, result) ==
  IF result.success THEN [returned |-> TRUE, attempt |-> a]
  ELSE IF a = MaxRetries THEN [returned |-> TRUE, attempt |-> a]
  ELSE [returned |-> FALSE, attempt |-> a + 1]

VARIABLES
  sel_in,      \* the org_details the selector is called with
  sel_out,     \* what extract_latest_filing_info_sync returned for sel_in
  sel_pick,    \* its locals most_recent_* when it returned
  sel_pc,      \* "input": not called yet; "returned": sel_out is the result
  ex_in,       \* the filing's pdf_url and what the collaborators answer
  ex_out,      \* what extract_financials_async did with ex_in
  ex_pc,       \* "input": not called yet; "returned": ex_out is the outcome
  run_pc,      \* where the run is: "construct" (in __init__), then in scrape_async
               \* "paging", "collected", "dispatch", "batch", "done", "raised"
  env_api_key, \* GOOGLE_AI_API_KEY is set in the environment
  term_i,      \* index of the current term in search_terms
  paging,      \* the locals of collect_eins_for_query_async for that term
  processed_eins,  \* self.processed_eins
  all_eins,    \* scrape_async's all_eins
  last_fetch,  \* observation: the last search request and how it ended
  fail_streak, \* observation: failed requests of the term since its start
               \* or since its last page that yielded EINs
  dup_offered, \* observation: the registry returned an EIN a second time
  parsing_method,  \* self.parsing_method
  counters,    \* total_orgs, completed_orgs and the five per-source counters
  results,     \* self.results
  batch_lo,    \* i of "for i in range(0, total_eins, batch_size)"
  tasks,       \* the tasks of the batch under way
  api_value,   \* free slots of self.api_semaphore
  pdf_value,   \* free slots of self.pdf_semaphore
  org_in,      \* one organization: the answer to its detail request and what
               \* the collaborators answer for its document
  org_out,     \* what process_organization_async did with org_in
  org_pc,      \* "input": not called yet; "returned": org_out is the outcome
  attempt,     \* the loop variable of parse_with_retry
  tried,       \* observation: calls of parse_pdf_with_gemini so far
  requests,    \* observation: submissions of the document to the AI service so far
  last_answer, \* observation: what the AI service answered to the submission
               \* that retry_result comes from
  retry_result,  \* result of the last parse_pdf_with_gemini; what parse_with_retry returns
  retry_pc,    \* "loop": in the for loop; "returned": parse_with_retry returned;
               \* "extracted": extract_financials_async returned
  fp_in,       \* the input of the function of Form990Parser under study
  fp_out,      \* what it returned for fp_in
  fp_pc        \* "input": not called yet; "returned": fp_out is the result

selVars == <<sel_in, sel_out, sel_pick, sel_pc>>
exVars == <<ex_in, ex_out, ex_pc>>
searchVars == <<term_i, paging, processed_eins, all_eins, last_fetch, fail_streak, dup_offered>>
batchVars == <<parsing_method, counters, results, batch_lo, tasks, api_value, pdf_value>>
runVars == <<run_pc, env_api_key, searchVars, batchVars>>
orgVars == <<org_in, org_out, org_pc>>
retryVars == <<attempt, tried, requests, last_answer, retry_result, retry_pc>>
fpVars == <<fp_in, fp_out, fp_pc>>
vars == <<selVars, exVars, runVars, orgVars, retryVars, fpVars>>

SelectorIdle ==
  /\ sel_in = OrgDetails(<<>>, <<>>)
  /\ sel_out = SelectorResult(0, NA, NA, "unset")
  /\ sel_pick = NoSelection
  /\ sel_pc = "idle"

\* No call of extract_financials_async is under way.
NoExtractInput ==
  [pdf_url |-> "absent", parsing_method |-> "ocr", first |-> "pdf", second |-> "pdf",
   ai |-> [success |-> FALSE, total_revenue |-> None, total_executive_compensation |-> None,
           rate |-> FALSE, quota |-> FALSE, code429 |-> FALSE],
   ocr |-> [success |-> FALSE, total_revenue |-> None, comp_sum |-> None]]

ExtractIdle ==
  /\ ex_in = NoExtractInput
  /\ ex_out = Returned(NA, NA, "unset", {})
  /\ ex_pc = "idle"

\* No call of process_organization_async outside a run is under way.
OrgIdle ==
  /\ org_in = [answer |-> [kind |-> "error", details |-> OrgDetails(<<>>, <<>>)],
               parsing_method |-> "ocr", first |-> "pdf", second |-> "pdf",
               ai |-> NoExtractInput.ai, ocr |-> NoExtractInput.ocr]
  /\ org_out = OrgOutcome(Ended(NoResult, Counters(0, 0, 0, 0, 0, 0, 0)), FALSE, {}, "")
  /\ org_pc = "idle"

NoAnswer == [raises |-> FALSE, text |-> ResponseText("none", None, None, FALSE, FALSE, FALSE)]

\* No call of parse_with_retry is under way.
RetryIdle ==
  /\ attempt = 0
  /\ tried = 0
  /\ requests = 0
  /\ last_answer = NoAnswer
  /\ retry_result = NoExtractInput.ai
  /\ retry_pc = "idle"

\* No function of Form990Parser is under study.
FpIdle ==
  /\ fp_in = <<>>
  /\ fp_out = <<>>
  /\ fp_pc = "idle"

\* No run of scrape_async is under way.
RunIdle ==
  /\ run_pc = "idle"
  /\ env_api_key = FALSE
  /\ term_i = 0
  /\ paging = Paging(<<>>, 0, 0, FALSE)
  /\ processed_eins = {}
  /\ all_eins = <<>>
  /\ last_fetch = NoFetch
  /\ fail_streak = 0
  /\ dup_offered = FALSE
  /\ parsing_method = "ocr"
  /\ counters = Counters(0, 0, 0, 0, 0, 0, 0)
  /\ results = <<>>
  /\ batch_lo = 0
  /\ tasks = <<>>
  /\ api_value = MaxConcurrentApi
  /\ pdf_value = MaxConcurrentPdf

SelectorInit ==
  /\ \E w \in WithDataLists, wo \in WithoutDataLists : sel_in = OrgDetails(w, wo)
  /\ sel_out = SelectorResult(0, NA, NA, "unset")
  /\ sel_pick = NoSelection
  /\ sel_pc = "input"
  /\ ExtractIdle
  /\ RunIdle
  /\ OrgIdle
  /\ RetryIdle
  /\ FpIdle

SelectFiling ==
  /\ sel_pc = "input"
  /\ sel_out' = extract_latest_filing_info_sync(sel_in)
  /\ sel_pick' = MostRecent(sel_in)
  /\ sel_pc' = "returned"
  /\ UNCHANGED <<sel_in, exVars, runVars, orgVars, retryVars, fpVars>>

SelectorNext == SelectFiling

SelectorSpec == SelectorInit /\ [][SelectorNext]_vars

ExtractInit ==
  /\ ex_in \in ExtractInputs
  /\ ex_out = Returned(NA, NA, "unset", {})
  /\ ex_pc = "input"
  /\ SelectorIdle
  /\ RunIdle
  /\ OrgIdle
  /\ RetryIdle
  /\ FpIdle

ExtractFinancials ==
  /\ ex_pc = "input"
  /\ ex_out' = extract_financials_async(ex_in.pdf_url, ex_in.parsing_method, ex_in.first,
                                        ex_in.second, ex_in.ai, ex_in.ocr)
  /\ ex_pc' = "returned"
  /\ UNCHANGED <<ex_in, selVars, runVars, orgVars, retryVars, fpVars>>

ExtractNext == ExtractFinancials

ExtractSpec == ExtractInit /\ [][ExtractNext]_vars

(***************************************************************************)
(* One call of process_organization_async, with the semaphores free        *)
(***************************************************************************)
OrgInit ==
  /\ org_in \in OrgInputs
  /\ org_out = OrgOutcome(Ended(NoResult, Counters(0, 0, 0, 0, 0, 0, 0)), FALSE, {}, "")
  /\ org_pc = "input"
  /\ SelectorIdle
  /\ ExtractIdle
  /\ RunIdle
  /\ RetryIdle
  /\ FpIdle

\* The whole of process_organization_async for EIN 1, the only organization
\* of its list.
ProcessOrganization ==
  /\ org_pc = "input"
  /\ LET c == Counters(1, 0, 0, 0, 0, 0, 0)
         a == AfterDetails(1, org_in.answer, c)
         out == extract_financials_async(a.pdf_url, org_in.parsing_method, org_in.first,
                                         org_in.second, org_in.ai, org_in.ocr)
     IN org_out' = IF a.stop THEN OrgOutcome(a.end, FALSE, {}, "")
                   ELSE OrgOutcome(AfterExtract(1, a.filing_year, out, c), TRUE, out.calls,
                                   out.error_type)
  /\ org_pc' = "returned"
  /\ UNCHANGED <<org_in, selVars, exVars, runVars, retryVars, fpVars>>

OrgNext == ProcessOrganization

OrgSpec == OrgInit /\ [][OrgNext]_vars

(***************************************************************************)
(* A run of scrape_async with a list of NumTerms search terms              *)
(***************************************************************************)
\* AsyncNonprofitScraper.__init__ as main_async calls it (parsing_method
\* "gemini", the AI parser constructed), then scrape_async up to the first
\* search.
Init ==
  /\ SelectorIdle
  /\ ExtractIdle
  /\ OrgIdle
  /\ RetryIdle
  /\ FpIdle
  /\ run_pc = "paging"
  /\ env_api_key = TRUE
  /\ term_i = 1
  /\ paging = Paging(<<>>, 0, 0, FALSE)
  /\ processed_eins = {}
  /\ all_eins = <<>>
  /\ last_fetch = NoFetch
  /\ fail_streak = 0
  /\ dup_offered = FALSE
  /\ parsing_method = "gemini"
  /\ counters = Counters(0, 0, 0, 0, 0, 0, 0)
  /\ results = <<>>
  /\ batch_lo = 0
  /\ tasks = <<>>
  /\ api_value = MaxConcurrentApi
  /\ pdf_value = MaxConcurrentPdf

\* One pass of the loop of collect_eins_for_query_async: the request for the
\* current page, the registry's answer, and what the loop does with it.
FetchPage ==
  /\ run_pc = "paging"
  /\ paging.consecutive_errors < MaxConsecutiveErrors
  /\ \E resp \in (IF paging.page >= MaxPage THEN EndResponses ELSE SearchResponses) :
       LET r == get_eins_by_search_async(resp, processed_eins)
           l == LoopPass(paging, r)
           kind == FetchKind(resp, r)
       IN /\ paging' = l
          /\ processed_eins' = r.processed
          /\ run_pc' = IF l.done THEN "collected" ELSE "paging"
          /\ last_fetch' = [term |-> term_i, page |-> paging.page, kind |-> kind]
          /\ fail_streak' = IF kind = "failed" THEN fail_streak + 1
                            ELSE IF kind = "eins" THEN 0 ELSE fail_streak
          /\ dup_offered' = (dup_offered \/ OffersDuplicate(resp, processed_eins))
  /\ UNCHANGED <<env_api_key, term_i, all_eins, batchVars, selVars, exVars, orgVars, retryVars, fpVars>>

\* collect_eins_for_query_async returned: all_eins.extend(eins), next term.
NextTerm ==
  /\ run_pc = "collected"
  /\ term_i < NumTerms
  /\ all_eins' = all_eins \o paging.all_eins
  /\ term_i' = term_i + 1
  /\ paging' = Paging(<<>>, 0, 0, FALSE)
  /\ fail_streak' = 0
  /\ run_pc' = "paging"
  /\ UNCHANGED <<env_api_key, processed_eins, last_fetch, dup_offered, batchVars, selVars, exVars, orgVars, retryVars, fpVars>>

\* The last term is collected.  "if all_eins:" calls process_query_batch_async,
\* which sets total_orgs; with no EIN at all, elapsed/len(all_eins) raises
\* ZeroDivisionError after the session is closed.
StartBatches ==
  /\ run_pc = "collected"
  /\ term_i = NumTerms
  /\ all_eins' = all_eins \o paging.all_eins
  /\ paging' = Paging(<<>>, 0, 0, FALSE)
  /\ fail_streak' = 0
  /\ last_fetch' = NoFetch
  /\ run_pc' = IF all_eins' = <<>> THEN "raised" ELSE "dispatch"
  /\ counters' = IF all_eins' = <<>> THEN counters
                 ELSE [counters EXCEPT !.total_orgs = Len(all_eins')]
  /\ batch_lo' = 0
  /\ UNCHANGED <<env_api_key, term_i, processed_eins, dup_offered, parsing_method, results, tasks,
                 api_value, pdf_value, selVars, exVars, orgVars, retryVars, fpVars>>

\* "for i in range(0, total_eins, batch_size)": the next batch is cut and its
\* tasks are started, or the loop ends and scrape_async returns.
DispatchBatch ==
  /\ run_pc = "dispatch"
  /\ IF batch_lo < Len(all_eins)
     THEN LET batch == Slice(all_eins, batch_lo, BatchSize)
          IN /\ tasks' = NewTasks(batch, 1, api_value)
             /\ api_value' = api_value - Min(api_value, Len(batch))
             /\ run_pc' = "batch"
     ELSE /\ run_pc' = "done"
          /\ UNCHANGED <<tasks, api_value>>
  /\ UNCHANGED <<env_api_key, searchVars, parsing_method, counters, results, batch_lo, pdf_value,
                 selVars, exVars, orgVars, retryVars, fpVars>>

\* A task waiting for the api semaphore goes on without waiting for a slot.
AcquireApiNoWait(t) ==
  /\ run_pc = "batch"
  /\ tasks[t].pc = "api_wait"
  /\ api_value' = api_value - 1
  /\ tasks' = [tasks EXCEPT ![t].pc = "in_api"]
  /\ UNCHANGED <<env_api_key, run_pc, searchVars, parsing_method, counters, results, batch_lo, pdf_value,
                 selVars, exVars, orgVars, retryVars, fpVars>>

\* A task waiting for the api semaphore gets a slot and sends its request.
AcquireApi(t) ==
  /\ run_pc = "batch"
  /\ tasks[t].pc = "api_wait"
  /\ api_value > 0
  /\ api_value' = api_value - 1
  /\ tasks' = [tasks EXCEPT ![t].pc = "in_api"]
  /\ UNCHANGED <<env_api_key, run_pc, searchVars, parsing_method, counters, results, batch_lo, pdf_value,
                 selVars, exVars, orgVars, retryVars, fpVars>>

\* Leaving "async with" without giving the slot back.
ReleaseNothing(value) == value

\* Leaving "async with <semaphore>", by return or by exception: the slot is
\* given back.
Release(value) == value + 1

\* The task t ends with `e` (result and counters).
Finish(t, e) ==
  /\ tasks' = [tasks EXCEPT ![t] = Task(tasks[t].ein, "done", 0, "", e.result)]
  /\ counters' = e.counters

\* "async with self.pdf_semaphore" of extract_financials_async for task t,
\* holding `free` slots: with a slot, a pdf_url "null" returns no_pdf_url at
\* once (and frees the slot), any other starts the download; without, t waits.
EnterExtract(t, filing_year, pdf_url, free) ==
  IF free > 0
  THEN IF pdf_url = "null"
       THEN /\ Finish(t, AfterExtract(tasks[t].ein, filing_year,
                                      extract_financials_async(pdf_url, parsing_method, "pdf",
                                                               "pdf", NoExtractInput.ai,
                                                               NoExtractInput.ocr),
                                      counters))
            /\ pdf_value' = Release(free - 1)
       ELSE /\ tasks' = [tasks EXCEPT ![t].pc = "in_pdf", ![t].filing_year = filing_year,
                                      ![t].pdf_url = pdf_url]
            /\ pdf_value' = free - 1
            /\ UNCHANGED counters
  ELSE /\ tasks' = [tasks EXCEPT ![t].pc = "pdf_wait", ![t].filing_year = filing_year,
                                 ![t].pdf_url = pdf_url]
       /\ pdf_value' = free
       /\ UNCHANGED counters

\* The detail request of task t is answered: the api slot is freed, and
\* process_organization_async runs on to its end or to the document.
DetailResponse(t) ==
  /\ run_pc = "batch"
  /\ tasks[t].pc = "in_api"
  /\ api_value' = Release(api_value)
  /\ \E resp \in DetailAnswers :
       LET a == AfterDetails(tasks[t].ein, resp, counters)
       IN IF a.stop
          THEN Finish(t, a.end) /\ UNCHANGED pdf_value
          ELSE EnterExtract(t, a.filing_year, a.pdf_url, pdf_value)
  /\ UNCHANGED <<env_api_key, run_pc, searchVars, parsing_method, results, batch_lo, selVars, exVars, orgVars, retryVars, fpVars>>

\* A task waiting for the pdf semaphore gets a slot.
AcquirePdf(t) ==
  /\ run_pc = "batch"
  /\ tasks[t].pc = "pdf_wait"
  /\ pdf_value > 0
  /\ EnterExtract(t, tasks[t].filing_year, tasks[t].pdf_url, pdf_value)
  /\ UNCHANGED <<env_api_key, run_pc, searchVars, parsing_method, results, batch_lo, api_value,
                 selVars, exVars, orgVars, retryVars, fpVars>>

\* Download and parsing of task t's document end: the pdf slot is freed, the
\* outcome is categorized and process_organization_async returns.
ExtractResponse(t) ==
  /\ run_pc = "batch"
  /\ tasks[t].pc = "in_pdf"
  /\ pdf_value' = Release(pdf_value)
  /\ \E out \in RunExtractOutcomes[parsing_method] :
       Finish(t, AfterExtract(tasks[t].ein, tasks[t].filing_year, out, counters))
  /\ UNCHANGED <<env_api_key, run_pc, searchVars, parsing_method, results, batch_lo, api_value,
                 selVars, exVars, orgVars, retryVars, fpVars>>

\* The loop goes on to the next batch without waiting for the tasks.
FinishBatchNoWait ==
  /\ run_pc = "batch"
  /\ results' = results \o Rows(tasks, 1)
  /\ batch_lo' = batch_lo + BatchSize
  /\ tasks' = <<>>
  /\ run_pc' = "dispatch"
  /\ UNCHANGED <<env_api_key, searchVars, parsing_method, counters, api_value, pdf_value, selVars, exVars,
                 orgVars, retryVars, fpVars>>

\* asyncio.gather returns when every task of the batch is done: the dicts
\* among the results are appended to self.results, in the order of the batch.
FinishBatch ==
  /\ run_pc = "batch"
  /\ \A t \in 1..Len(tasks) : tasks[t].pc = "done"
  /\ results' = results \o Rows(tasks, 1)
  /\ batch_lo' = batch_lo + BatchSize
  /\ tasks' = <<>>
  /\ run_pc' = "dispatch"
  /\ UNCHANGED <<env_api_key, searchVars, parsing_method, counters, api_value, pdf_value, selVars, exVars, orgVars, retryVars, fpVars>>

Next ==
  \/ FetchPage
  \/ NextTerm
  \/ StartBatches
  \/ DispatchBatch
  \/ \E t \in 1..Len(tasks) : AcquireApi(t)
  \/ \E t \in 1..Len(tasks) : DetailResponse(t)
  \/ \E t \in 1..Len(tasks) : AcquirePdf(t)
  \/ \E t \in 1..Len(tasks) : ExtractResponse(t)
  \/ FinishBatch

Spec == Init /\ [][Next]_vars

(***************************************************************************)
(* An interrupt (SIGINT) during the batches of a run started by main_async *)
(***************************************************************************)
\* The run has collected the EINs 1..NumEins, in this order, and calls
\* process_query_batch_async.
InterruptInit ==
  /\ SelectorIdle
  /\ ExtractIdle
  /\ OrgIdle
  /\ RetryIdle
  /\ FpIdle
  /\ run_pc = "dispatch"
  /\ env_api_key = TRUE
  /\ term_i = NumTerms
  /\ paging = Paging(<<>>, 0, 0, FALSE)
  /\ processed_eins = Eins
  /\ all_eins = [k \in 1..NumEins |-> k]
  /\ last_fetch = NoFetch
  /\ fail_streak = 0
  /\ dup_offered = FALSE
  /\ parsing_method = "gemini"
  /\ counters = Counters(NumEins, 0, 0, 0, 0, 0, 0)
  /\ results = <<>>
  /\ batch_lo = 0
  /\ tasks = <<>>
  /\ api_value = MaxConcurrentApi
  /\ pdf_value = MaxConcurrentPdf

\* The interrupt arrives while asyncio.run(main_async()) runs the batches.
\* How it is delivered depends on the Python version and on what the event
\* loop is doing: KeyboardInterrupt is raised in the code of main_async's own
\* task and reaches its "except KeyboardInterrupt" ("interrupt_caught": partial
\* results are saved), or the task is cancelled or the exception leaves the
\* event loop from another task's code, and main_async ends with
\* CancelledError, which that handler does not catch ("interrupt_cancelled").
\* Either way nothing of the run goes on; self.results and the tasks are left
\* as they were.
Interrupt ==
  /\ run_pc \in {"dispatch", "batch"}
  /\ run_pc' \in {"interrupt_caught", "interrupt_cancelled"}
  /\ UNCHANGED <<env_api_key, searchVars, batchVars, selVars, exVars, orgVars, retryVars, fpVars>>

\* "if scraper.results: scraper.save_to_excel()": the rows written to the file.
Exported == IF run_pc = "interrupt_caught" THEN results ELSE <<>>

InterruptNext ==
  \/ DispatchBatch
  \/ \E t \in 1..Len(tasks) : AcquireApi(t)
  \/ \E t \in 1..Len(tasks) : DetailResponse(t)
  \/ \E t \in 1..Len(tasks) : AcquirePdf(t)
  \/ \E t \in 1..Len(tasks) : ExtractResponse(t)
  \/ FinishBatch
  \/ Interrupt

InterruptSpec == InterruptInit /\ [][InterruptNext]_vars

(***************************************************************************)
(* main_async from the construction of the scraper to the end of the       *)
(* searches, with or without GOOGLE_AI_API_KEY in the environment          *)
(***************************************************************************)
\* GeminiPDFParser.__init__ without an api_key argument: ValueError when the
\* environment has no key, else the parser is configured.
GeminiPDFParserInit(key) == IF key THEN "configured" ELSE "ValueError"

\* main_async is about to construct the scraper with parsing_method "gemini";
\* "self.parsing_method = parsing_method" and the empty results, set and
\* counters of __init__ are in place.
MainInit ==
  /\ SelectorIdle
  /\ ExtractIdle
  /\ OrgIdle
  /\ RetryIdle
  /\ FpIdle
  /\ run_pc = "construct"
  /\ env_api_key \in BOOLEAN
  /\ term_i = 1
  /\ paging = Paging(<<>>, 0, 0, FALSE)
  /\ processed_eins = {}
  /\ all_eins = <<>>
  /\ last_fetch = NoFetch
  /\ fail_streak = 0
  /\ dup_offered = FALSE
  /\ parsing_method = "gemini"
  /\ counters = Counters(0, 0, 0, 0, 0, 0, 0)
  /\ results = <<>>
  /\ batch_lo = 0
  /\ tasks = <<>>
  /\ api_value = MaxConcurrentApi
  /\ pdf_value = MaxConcurrentPdf

\* "Initialize parsers" of __init__: with parsing_method "gemini" the AI parser
\* is constructed; its ValueError is caught, logged, and parsing_method is
\* set to "ocr".  __init__ returns either way and main_async goes on to
\* scrape_async.
Construct ==
  /\ run_pc = "construct"
  /\ parsing_method' =
       IF parsing_method = "gemini" /\ GeminiPDFParserInit(env_api_key) = "ValueError"
       THEN "ocr" ELSE parsing_method
  /\ run_pc' = "paging"
  /\ UNCHANGED <<env_api_key, searchVars, counters, results, batch_lo, tasks, api_value,
                 pdf_value, selVars, exVars, orgVars, retryVars, fpVars>>

MainNext ==
  \/ Construct
  \/ FetchPage
  \/ NextTerm
  \/ StartBatches

MainSpec == MainInit /\ [][MainNext]_vars

(***************************************************************************)
(* The AI extraction of one document: parse_with_retry as                  *)
(* extract_financials_async calls it, and what follows its return          *)
(***************************************************************************)
\* extract_financials_async in "gemini" mode has downloaded the document and
\* calls parse_with_retry(pdf_bytes).
RetryInit ==
  /\ SelectorIdle
  /\ ExtractIdle
  /\ OrgIdle
  /\ RunIdle
  /\ FpIdle
  /\ attempt = 0
  /\ tried = 0
  /\ requests = 0
  /\ last_answer = NoAnswer
  /\ retry_result = NoExtractInput.ai
  /\ retry_pc = "loop"

\* One pass of the loop: the sleep before a retry, parse_pdf_with_gemini,
\* and the return or the continue.
Attempt ==
  /\ retry_pc = "loop"
  /\ attempt <= MaxRetries
  /\ \E file_api \in Submissions, direct \in Submissions :
       LET p == parse_pdf_with_gemini(file_api, direct)
           l == RetryPass(attempt, p.result)
       IN /\ retry_result' = p.result
          /\ last_answer' = p.answer
          /\ requests' = requests + p.requests
          /\ attempt' = l.attempt
          /\ retry_pc' = IF l.returned THEN "returned" ELSE "loop"
  /\ tried' = tried + 1
  /\ UNCHANGED <<selVars, exVars, runVars, orgVars, fpVars>>

\* extract_financials_async from the return of parse_with_retry on, with the
\* answer `ocr` of the pattern parser should it be called.
AfterRetry ==
  /\ retry_pc = "returned"
  /\ \E ocr \in OcrOutcomes :
       /\ ex_in' = [pdf_url |-> "url", parsing_method |-> "gemini", first |-> "pdf",
                    second |-> "pdf", ai |-> retry_result, ocr |-> ocr]
       /\ ex_out' = extract_financials_async("url", "gemini", "pdf", "pdf", retry_result, ocr)
  /\ ex_pc' = "returned"
  /\ retry_pc' = "extracted"
  /\ UNCHANGED <<attempt, tried, requests, last_answer, retry_result, selVars, runVars, orgVars,
                 fpVars>>

RetryNext ==
  \/ Attempt
  \/ AfterRetry

RetrySpec == RetryInit /\ [][RetryNext]_vars

(***************************************************************************)
(* determine_form_version over the indicator matches of a text             *)
(***************************************************************************)
OthersIdle ==
  /\ SelectorIdle
  /\ ExtractIdle
  /\ OrgIdle
  /\ RunIdle
  /\ RetryIdle

VersionInit ==
  /\ OthersIdle
  /\ fp_in \in IndicatorMatches
  /\ fp_out = <<>>
  /\ fp_pc = "input"

\* determine_form_version(text) in parse_990_form, and the pattern set that
\* extract_financial_data then uses.
DetermineFormVersion ==
  /\ fp_pc = "input"
  /\ LET post_2008_score == Cardinality(fp_in.post)
         pre_2008_score == Cardinality(fp_in.pre)
         v == determine_form_version(post_2008_score, pre_2008_score)
     IN fp_out' = [post_2008_score |-> post_2008_score, pre_2008_score |-> pre_2008_score,
                   form_version |-> v, patterns |-> PatternSet(v)]
  /\ fp_pc' = "returned"
  /\ UNCHANGED <<fp_in, selVars, exVars, runVars, orgVars, retryVars>>

VersionNext == DetermineFormVersion

VersionSpec == VersionInit /\ [][VersionNext]_vars

(***************************************************************************)
(* _calculate_confidence_score over the fields of one parsed form          *)
(***************************************************************************)
ConfidenceInit ==
  /\ OthersIdle
  /\ fp_in \in ParsedData
  /\ fp_out = <<>>
  /\ fp_pc = "input"

\* "data.confidence_score = self._calculate_confidence_score(data)"
CalculateConfidenceScore ==
  /\ fp_pc = "input"
  /\ fp_out' = calculate_confidence_score(fp_in)
  /\ fp_pc' = "returned"
  /\ UNCHANGED <<fp_in, selVars, exVars, runVars, orgVars, retryVars>>

ConfidenceNext == CalculateConfidenceScore

ConfidenceSpec == ConfidenceInit /\ [][ConfidenceNext]_vars

(***************************************************************************)
(* _clean_financial_value over strings and tuples                          *)
(***************************************************************************)
CleanInit ==
  /\ OthersIdle
  /\ fp_in \in CleanArgs
  /\ fp_out = <<>>
  /\ fp_pc = "input"

\* "cleaned_value = self._clean_financial_value(match)"
CleanFinancialValue ==
  /\ fp_pc = "input"
  /\ fp_out' = clean_financial_value(fp_in)
  /\ fp_pc' = "returned"
  /\ UNCHANGED <<fp_in, selVars, exVars, runVars, orgVars, retryVars>>

CleanNext == CleanFinancialValue

CleanSpec == CleanInit /\ [][CleanNext]_vars

(***************************************************************************)
(* The total revenue of a text, by the matches of its patterns             *)
(***************************************************************************)
RevenueInit ==
  /\ OthersIdle
  /\ fp_in \in RevenueTexts
  /\ fp_out = <<>>
  /\ fp_pc = "input"

\* "data.total_revenue = ..." in extract_financial_data
ExtractTotalRevenue ==
  /\ fp_pc = "input"
  /\ fp_out' = total_revenue(fp_in.form_version, fp_in)
  /\ fp_pc' = "returned"
  /\ UNCHANGED <<fp_in, selVars, exVars, runVars, orgVars, retryVars>>

RevenueNext == ExtractTotalRevenue

RevenueSpec == RevenueInit /\ [][RevenueNext]_vars

(***************************************************************************)
(* The filing selector: C8, C9, C10 (under SelectorSpec)                   *)
(***************************************************************************)
\* The years of a list of filings, and the largest of them (0: none).
YearsOf(filings) == { filings[i].tax_prd_yr : i \in 1..Len(filings) }
MaxOf(S) == IF S = {} THEN 0 ELSE CHOOSE y \in S : \A z \in S : z <= y
MaxYear(d) == MaxOf(YearsOf(Combined(d)))

\* The first place of the list that holds the year y.
FirstPos(filings, y) ==
  CHOOSE i \in 1..Len(filings) :
    filings[i].tax_prd_yr = y /\ \A j \in 1..(i - 1) : filings[j].tax_prd_yr # y

\* The history that holds the selected filing alone, in the list it came from.
OnlySelected(pick) ==
  IF pick.is_filing_with_data
  THEN OrgDetails(<<pick.most_recent_filing>>, <<>>)
  ELSE OrgDetails(<<>>, <<pick.most_recent_filing>>)

\* C8: whenever some filing of the history has a tax-period year (> 0), the
\* selector picks the first filing of the combined (structured, then
\* unstructured) list that has the maximum year and reports that year; its
\* result is the one it gives for that filing alone, and a selected
\* unstructured filing is reported pdf_needed whatever the other filings hold.
\* (A history none of whose filings has a positive year is C29's case.)
C8_SelectsFirstMaxYear ==
  sel_pc = "returned" =>
    LET all == Combined(sel_in)
        top == MaxOf(YearsOf(all))
        first == FirstPos(all, top)
    IN top > 0 =>
         /\ sel_pick.found
         /\ sel_pick.pos = first
         /\ sel_pick.most_recent_filing = all[first]
         /\ sel_pick.is_filing_with_data = (first <= Len(sel_in.filings_with_data))
         /\ sel_out.filing_year = top
         /\ sel_out = extract_latest_filing_info_sync(OnlySelected(sel_pick))
         /\ ~sel_pick.is_filing_with_data => sel_out.data_source = "pdf_needed"

\* Spec example: 2019 structured with complete inline data, 2021 unstructured
\* with no document: the 2021 filing is selected, pdf_needed.
C8_Witness ==
  /\ sel_pc = "returned"
  /\ sel_in.filings_with_data =
       <<Filing(2019, [r |-> Num(500000), e |-> Num(400000), p |-> Num(1000)], "url")>>
  /\ sel_in.filings_without_data = <<Filing(2021, NoInline, "absent")>>
  /\ sel_pick.pos = 2
  /\ sel_out = SelectorResult(2021, NA, NA, "pdf_needed")

\* The decision of the selector, read off its result: inline-complete is
\* data-source api with both values numeric, inline-partial is api with one
\* value unavailable.
Decision(out) ==
  IF out.data_source = "api"
  THEN IF IsNum(out.revenue) /\ IsNum(out.exec_comp) THEN "inline-complete"
       ELSE "inline-partial"
  ELSE IF out.data_source = "pdf_needed" THEN "document-required"
  ELSE out.data_source

\* The claim's conditions, on the fields of the filing.
RevenueUsable(f) == f.totrevenue # None /\ f.totrevenue.val > 0
CompUsable(f) ==
  /\ f.totfuncexpns # None
  /\ f.pct_compnsatncurrofcr # None
  /\ f.pct_compnsatncurrofcr.val >= 0

SelectedStructured == sel_pc = "returned" /\ sel_pick.found /\ sel_pick.is_filing_with_data

\* C9: for a selected structured filing the result is inline-complete (api,
\* both values numeric) exactly when revenue is present and > 0 and expenses
\* and percentage are present with percentage >= 0; the result then carries
\* the inline revenue and expenses x percentage rounded to hundredths
\* (400000 x 0.10 = 40000.00), and its data-source does not ask for a document.
C9_InlineComplete ==
  SelectedStructured =>
    LET f == sel_pick.most_recent_filing
        exact == f.totfuncexpns.val * f.pct_compnsatncurrofcr.val
    IN /\ (Decision(sel_out) = "inline-complete") <=> (RevenueUsable(f) /\ CompUsable(f))
       /\ (RevenueUsable(f) /\ CompUsable(f)) =>
            /\ sel_out.data_source = "api"
            /\ sel_out.revenue = f.totrevenue
            /\ IsNum(sel_out.exec_comp)
            /\ 100 * sel_out.exec_comp.val - exact <= 50
            /\ exact - 100 * sel_out.exec_comp.val <= 50
            /\ (f.totfuncexpns.val = 400000 /\ f.pct_compnsatncurrofcr.val = 1000)
                 => sel_out.exec_comp.val = 4000000
            /\ sel_out.data_source # "pdf_needed"

C9_Witness ==
  /\ SelectedStructured
  /\ sel_pick.most_recent_filing.totrevenue = Num(500000)
  /\ sel_pick.most_recent_filing.totfuncexpns = Num(400000)
  /\ sel_pick.most_recent_filing.pct_compnsatncurrofcr = Num(1000)
  /\ sel_out.revenue = Num(500000)
  /\ sel_out.exec_comp = Num(4000000)
  /\ sel_out.data_source = "api"

LacksBoth(f) == ~RevenueUsable(f) /\ ~CompUsable(f)
LacksOne(f) == RevenueUsable(f) # CompUsable(f)

\* C10 as stated: a selected structured filing that lacks both usable revenue
\* and usable compensation data gets the decision and the data-source of a
\* structured filing that lacks only one of the two.
C10_BothLikeOne ==
  (SelectedStructured /\ LacksBoth(sel_pick.most_recent_filing)) =>
    \A g \in FilingsWithData :
      (g.tax_prd_yr > 0 /\ LacksOne(g)) =>
        LET other == extract_latest_filing_info_sync(OrgDetails(<<g>>, <<>>))
        IN /\ other.data_source = sel_out.data_source
           /\ Decision(other) = Decision(sel_out)

\* C10 amended: a selected structured filing that lacks both is reported
\* pdf_needed with both values unavailable; one that lacks exactly one of the
\* two is reported api with exactly that value unavailable.
C10_BothNeedsDocument ==
  SelectedStructured =>
    LET f == sel_pick.most_recent_filing
    IN /\ LacksBoth(f) => sel_out = SelectorResult(sel_pick.most_recent_year, NA, NA, "pdf_needed")
       /\ LacksOne(f) =>
            /\ sel_out.data_source = "api"
            /\ IsNum(sel_out.revenue) = RevenueUsable(f)
            /\ IsNum(sel_out.exec_comp) = CompUsable(f)
            /\ (sel_out.revenue = NA) # (sel_out.exec_comp = NA)

C10_Witness ==
  /\ SelectedStructured
  /\ LacksBoth(sel_pick.most_recent_filing)
  /\ sel_out.data_source = "pdf_needed"
  /\ \E i \in 1..Len(sel_in.filings_with_data) :
       /\ LacksOne(sel_in.filings_with_data[i])
       /\ sel_in.filings_with_data[i].tax_prd_yr > 0

(***************************************************************************)
(* The extraction chain: C4 (under ExtractSpec)                            *)
(***************************************************************************)
ErrorTypes ==
  {"no_pdf_url", "success", "ocr_fallback", "rate_limit", "parse_failed",
   "download_403", "download_error", "unexpected_error"}

\* The download of ex_in fails, and not with an HTTP error response.
UnclassifiedFailure ==
  /\ ex_in.pdf_url = "url"
  /\ \/ ex_in.first \in {"timeout", "html"}
     \/ ex_in.first = "403" /\ ex_in.second \in {"timeout", "html"}

\* C4: extract_financials_async propagates no exception: whatever the
\* download, the AI extraction and the pattern extraction do, it returns a
\* (revenue, exec_comp, error_type) result, and a failure that no handler
\* classifies (a timeout, a body that is no PDF) is returned as
\* unexpected_error.
C4_NeverPropagates ==
  ex_pc = "returned" =>
    /\ ~ex_out.raised
    /\ ex_out.error_type \in ErrorTypes
    /\ UnclassifiedFailure =>
         /\ ex_out.error_type = "unexpected_error"
         /\ ex_out.revenue = Str("ERROR")
         /\ ex_out.exec_comp = Str("ERROR")

C4_Witness ==
  /\ ex_pc = "returned"
  /\ ex_in.pdf_url = "url"
  /\ ex_in.first = "timeout"
  /\ ex_out.error_type = "unexpected_error"
  /\ ~ex_out.raised

(***************************************************************************)
(* The run: C1, C2, C3, C5, C6, C7 (under Spec)                            *)
(***************************************************************************)
NoDuplicates(s) == \A i, j \in 1..Len(s) : s[i] = s[j] => i = j

\* The EINs of the rows of self.results, in order.
ResultEins == [k \in 1..Len(results) |-> results[k].ein]

\* The EINs collected so far by the search loop of scrape_async.
Collected == all_eins \o paging.all_eins

\* C1: every EIN appears at most once in the list collected by the search
\* loop (so in the list handed to process_query_batch_async) and at most once
\* among the rows of results, also when the registry returns an EIN for
\* several terms, on several pages or twice on one page.
C1_EachEinOnce ==
  /\ NoDuplicates(Collected)
  /\ NoDuplicates(ResultEins)

\* The registry returned some EIN more than once, the run is over, and
\* several organizations have their row.
C1_Witness ==
  /\ run_pc = "done"
  /\ dup_offered
  /\ Len(all_eins) >= 2
  /\ Len(results) = Len(all_eins)

\* Values by which a row shows that the extraction of the document failed.
ExtractionFailed == {Str("PARSE_FAILED"), Str("DOWNLOAD_FORBIDDEN"), Str("DOWNLOAD_ERROR"), Str("ERROR")}

\* The EINs of the batches that are complete.
Processed == SubSeq(all_eins, 1, Min(batch_lo, Len(all_eins)))

\* C2: results holds exactly one row for every EIN of every complete batch, in
\* input order, so one row for every EIN of the list when
\* process_query_batch_async returns; every task of a batch ends with a dict
\* for its own EIN, none with an exception that gather would drop; and the dict
\* of an organization whose detail request, filing selection or document
\* extraction failed has data_source "error".
C2_OneRowPerEin ==
  /\ run_pc \in {"dispatch", "done"} => ResultEins = Processed
  /\ run_pc = "batch" => ResultEins = SubSeq(all_eins, 1, batch_lo)
  /\ run_pc = "done" => ResultEins = all_eins
  /\ \A t \in 1..Len(tasks) :
       tasks[t].pc = "done" =>
         /\ tasks[t].result.kind = "dict"
         /\ tasks[t].result.ein = tasks[t].ein
         /\ (tasks[t].result.name = "Error" \/ tasks[t].result.revenue \in ExtractionFailed)
              => tasks[t].result.data_source = "error"

\* A run of more than one batch is over; one organization's detail request
\* or selection failed and the extraction of another's document failed, and
\* both have their row.
C2_Witness ==
  /\ run_pc = "done"
  /\ Len(all_eins) > BatchSize
  /\ Len(results) = Len(all_eins)
  /\ \E k \in 1..Len(results) : results[k].name = "Error" /\ results[k].revenue = Str("ERROR")
  /\ \E k \in 1..Len(results) : results[k].name = "Org" /\ results[k].revenue = Str("PARSE_FAILED")

InApi == { t \in 1..Len(tasks) : tasks[t].pc = "in_api" }
InPdf == { t \in 1..Len(tasks) : tasks[t].pc = "in_pdf" }

\* C3: at most max_concurrent_api tasks are inside the detail request and at
\* most max_concurrent_pdf inside download and parsing; the free slots of each
\* semaphore are its capacity minus the tasks inside, never negative.
C3_WithinBudgets ==
  /\ Cardinality(InApi) <= MaxConcurrentApi
  /\ Cardinality(InPdf) <= MaxConcurrentPdf
  /\ api_value = MaxConcurrentApi - Cardinality(InApi)
  /\ pdf_value = MaxConcurrentPdf - Cardinality(InPdf)
  /\ api_value >= 0
  /\ pdf_value >= 0

\* The document budget is used up and a task that has its organization's
\* details (after waiting its turn for the registry) waits for a document slot.
C3_Witness ==
  /\ run_pc = "batch"
  /\ Cardinality(InPdf) = MaxConcurrentPdf
  /\ \E t \in 1..Len(tasks) : tasks[t].pc = "pdf_wait"
  /\ Cardinality(InApi) + Cardinality(InPdf) < Len(tasks)

\* C5 as stated: every failed search request that is not the end of the
\* results raises the term's consecutive_errors, a page with EINs resets it,
\* and pagination of the term stops after 3 failures in a row.
C5_FailuresCounted ==
  run_pc \in {"paging", "collected"} =>
    /\ paging.consecutive_errors = fail_streak
    /\ run_pc = "paging" => fail_streak < MaxConsecutiveErrors

\* C6: the first request of a term is for page 0 and each request is for the
\* page after the one before; at the first 404 or empty "organizations" list
\* the loop is left: the term gets no further request, the EINs collected
\* before are kept and handed on to all_eins, and consecutive_errors is as it
\* was.
C6_Pagination ==
  [][ /\ run_pc = "paging" =>
           /\ last_fetch'.term = term_i
           /\ last_fetch'.page = paging.page
           /\ last_fetch.term # term_i => last_fetch'.page = 0
           /\ last_fetch.term = term_i =>
                /\ last_fetch.kind # "end"
                /\ last_fetch'.page = last_fetch.page + 1
           /\ IF last_fetch'.kind = "end"
              THEN /\ run_pc' = "collected"
                   /\ paging'.all_eins = paging.all_eins
                   /\ paging'.consecutive_errors = paging.consecutive_errors
              ELSE /\ run_pc' = "paging"
                   /\ paging'.page = paging.page + 1
      /\ run_pc = "collected" =>
           /\ all_eins' = all_eins \o paging.all_eins
           /\ run_pc' = "paging" => term_i' = term_i + 1 /\ paging'.page = 0
    ]_vars

\* A term ended on a later page than page 0 with EINs collected before.
C6_Witness ==
  /\ run_pc = "collected"
  /\ last_fetch.kind = "end"
  /\ last_fetch.term = term_i
  /\ last_fetch.page > 0
  /\ paging.all_eins # <<>>

\* C7 as stated: after a search request that failed, the next request of the
\* term is for the same page.
C7_FailedPageRetried ==
  (run_pc = "paging" /\ last_fetch.kind = "failed" /\ last_fetch.term = term_i)
    => paging.page = last_fetch.page

(***************************************************************************)
(* One organization: C11 (under OrgSpec)                                   *)
(***************************************************************************)
\* The filing history of org_in and what the selector makes of it.
OrgHistory == org_in.answer.details
OrgSelected == MostRecent(OrgHistory)
OrgDecision == extract_latest_filing_info_sync(OrgHistory)

\* The selector reported pdf_needed for a filing.
DocumentRequired ==
  /\ org_in.answer.kind = "ok"
  /\ OrgSelected.found
  /\ OrgDecision.data_source = "pdf_needed"

\* The counters after one organization counted under `source`.
CountedOnceAs(source) ==
  org_out.counters = Count(Counters(1, 0, 0, 0, 0, 0, 0), source)

\* C11: when the selected filing needs its document and its pdf_url is
\* absent, empty or "null", the result has revenue and exec_comp "N/A" and
\* data_source "none", na_count is the one counter raised, and neither a
\* download nor the AI parser nor the pattern parser was called; if
\* extract_financials_async was called at all it returned no_pdf_url.
C11_NoDocument ==
  (org_pc = "returned" /\ DocumentRequired
     /\ OrgSelected.most_recent_filing.pdf_url \in {"absent", "", "null"}) =>
    /\ org_out.result.kind = "dict"
    /\ org_out.result.revenue = NA
    /\ org_out.result.exec_comp = NA
    /\ org_out.result.data_source = "none"
    /\ CountedOnceAs("none")
    /\ org_out.counters.na_count = 1
    /\ org_out.calls = {}
    /\ org_out.extracted => org_out.error_type = "no_pdf_url"

\* The selected filing's pdf_url is the string "null":
\* extract_financials_async was called and returned no_pdf_url.
C11_Witness ==
  /\ org_pc = "returned"
  /\ DocumentRequired
  /\ OrgSelected.most_recent_filing.pdf_url = "null"
  /\ org_out.extracted
  /\ org_out.error_type = "no_pdf_url"
  /\ org_out.result.data_source = "none"

(***************************************************************************)
(* The extraction chain: C12 (under ExtractSpec)                           *)
(***************************************************************************)
\* download_pdf_async returned the document of ex_in.
DownloadOk ==
  /\ ex_in.pdf_url = "url"
  /\ \/ ex_in.first = "pdf"
     \/ ex_in.first = "403" /\ ex_in.second = "pdf"

\* The error message of the AI failure holds "rate", "quota" or "429".
AiRateLimited == ~ex_in.ai.success /\ (ex_in.ai.rate \/ ex_in.ai.quota \/ ex_in.ai.code429)

\* C12: with parsing_method "gemini" and the document downloaded, the pattern
\* parser is called exactly when the AI parser failed with a message holding
\* none of "rate", "quota", "429"; a failure with such a message returns
\* rate_limit, an AI success returns success, both without the pattern parser.
C12_FallbackIffPlainFailure ==
  (ex_pc = "returned" /\ ex_in.parsing_method = "gemini" /\ DownloadOk) =>
    /\ "ai" \in ex_out.calls
    /\ "ocr" \in ex_out.calls <=> (~ex_in.ai.success /\ ~AiRateLimited)
    /\ AiRateLimited =>
         /\ ex_out.error_type = "rate_limit"
         /\ ex_out.revenue = Str("RATE_LIMIT")
         /\ ex_out.exec_comp = Str("RATE_LIMIT")
    /\ ex_in.ai.success => ex_out.error_type = "success"
    /\ (~ex_in.ai.success /\ ~AiRateLimited) => ex_out.error_type \in {"ocr_fallback", "parse_failed"}

\* The AI parser failed with a message that holds "429" only.
C12_Witness ==
  /\ ex_pc = "returned"
  /\ ex_in.parsing_method = "gemini"
  /\ DownloadOk
  /\ ~ex_in.ai.success /\ ex_in.ai.code429 /\ ~ex_in.ai.rate /\ ~ex_in.ai.quota
  /\ ex_out.error_type = "rate_limit"
  /\ "ocr" \notin ex_out.calls

(***************************************************************************)
(* The pattern parser as fallback: C13 (under ExtractSpec)                 *)
(***************************************************************************)
\* The pattern parser is called as the fallback of the AI parser.
FallbackRuns ==
  /\ ex_pc = "returned"
  /\ ex_in.parsing_method = "gemini"
  /\ DownloadOk
  /\ ~ex_in.ai.success
  /\ ~AiRateLimited

\* The pattern extraction of doc fails: no text to extract from, or a text in
\* which no pattern matches.
ExtractsNothing(doc) ==
  \/ doc.raises
  \/ ~doc.download
  \/ doc.text # "long"
  \/ doc.revenue = None /\ doc.comp = None

\* C13 as stated: as the fallback, a pattern extraction that succeeds is
\* returned as ocr_fallback, and one that fails (no text, or no pattern
\* matching the text) as parse_failed.
C13_FailureIsParseFailed ==
  FallbackRuns =>
    \A doc \in OcrDocuments :
      ex_in.ocr = parse_990_form(doc) =>
        ex_out.error_type = (IF ExtractsNothing(doc) THEN "parse_failed" ELSE "ocr_fallback")

(***************************************************************************)
(* The download of the document: C14 (under OrgSpec)                       *)
(***************************************************************************)
\* process_organization_async called extract_financials_async with a URL, so
\* download_pdf_async was called.
Downloads ==
  /\ org_pc = "returned"
  /\ org_out.extracted
  /\ org_out.error_type # "no_pdf_url"

\* C14: download_pdf_async makes one request for the document, and a second
\* one, with the alternate headers, exactly when the first answer is HTTP 403;
\* when the second request fails too, nothing else is tried (no AI parser, no
\* pattern parser) and the organization's result is a failure row: the
\* download's error string in revenue and exec_comp, data_source "error", or
\* "rate_limit" when the failure is an HTTP 429.
C14_AtMostTwoRequests ==
  Downloads =>
    /\ "download" \in org_out.calls
    /\ "download_alt" \in org_out.calls <=> org_in.first = "403"
    /\ (org_in.first = "403" /\ org_in.second # "pdf") =>
         /\ org_out.calls = {"download", "download_alt"}
         /\ org_out.result.kind = "dict"
         /\ org_out.result.revenue = org_out.result.exec_comp
         /\ IF org_in.second = "429"
            THEN /\ org_out.error_type = "rate_limit"
                 /\ org_out.result.revenue = Str("RATE_LIMIT")
                 /\ org_out.result.data_source = "rate_limit"
            ELSE /\ org_out.error_type \in {"download_403", "download_error", "unexpected_error"}
                 /\ org_out.result.revenue \in
                      {Str("DOWNLOAD_FORBIDDEN"), Str("DOWNLOAD_ERROR"), Str("ERROR")}
                 /\ org_out.result.data_source = "error"

\* The first answer is HTTP 403 and the second HTTP 500.
C14_Witness ==
  /\ Downloads
  /\ org_in.first = "403"
  /\ org_in.second = "500"
  /\ org_out.calls = {"download", "download_alt"}
  /\ org_out.error_type = "download_error"
  /\ org_out.result.data_source = "error"

(***************************************************************************)
(* A body that is no PDF: C15 (under ExtractSpec)                          *)
(***************************************************************************)
\* The request that counts is answered with status 200 and a body that does
\* not start with %PDF.
NonPdfBody ==
  /\ ex_in.pdf_url = "url"
  /\ \/ ex_in.first = "html"
     \/ ex_in.first = "403" /\ ex_in.second = "html"

\* C15 as stated: a body that does not start with %PDF reaches neither the AI
\* parser nor the pattern parser and is returned with the error_type of a
\* failed HTTP download, download_error, not unexpected_error.
C15_NonPdfIsDownloadError ==
  (ex_pc = "returned" /\ NonPdfBody) =>
    /\ "ai" \notin ex_out.calls
    /\ "ocr" \notin ex_out.calls
    /\ ex_out.error_type = "download_error"
    /\ ex_out.revenue = Str("DOWNLOAD_ERROR")

(***************************************************************************)
(* The batches: C16 (under Spec)                                           *)
(***************************************************************************)
\* The EINs of the tasks of the batch under way, in task order.
TaskEins == [t \in 1..Len(tasks) |-> tasks[t].ein]

\* C16: the batch under way is the slice of at most batch_size EINs of the
\* input list that starts at a multiple of batch_size, in input order; while
\* it runs every organization of the slices before it has its terminal result
\* (its row in results), and no other organization has a task.
C16_BatchesInOrder ==
  /\ run_pc = "batch" =>
       /\ batch_lo % BatchSize = 0
       /\ batch_lo < Len(all_eins)
       /\ Len(tasks) >= 1
       /\ Len(tasks) <= BatchSize
       /\ TaskEins = SubSeq(all_eins, batch_lo + 1, batch_lo + Len(tasks))
       /\ batch_lo + Len(tasks) < Len(all_eins) => Len(tasks) = BatchSize
       /\ ResultEins = SubSeq(all_eins, 1, batch_lo)
  /\ run_pc # "batch" => tasks = <<>>

\* The second batch is under way, one of its organizations not finished,
\* after the first batch of batch_size organizations got its rows.
C16_Witness ==
  /\ run_pc = "batch"
  /\ batch_lo = BatchSize
  /\ Len(results) = BatchSize
  /\ \E t \in 1..Len(tasks) : tasks[t].pc # "done"

(***************************************************************************)
(* Interrupt: C17 (under InterruptSpec)                                    *)
(***************************************************************************)
\* The EINs whose process_organization_async had returned its dict when the
\* state was reached: those of the rows of results and those of the finished
\* tasks of the batch under way.
ReturnedEins ==
  { results[k].ein : k \in 1..Len(results) }
  \cup { tasks[t].ein : t \in { u \in 1..Len(tasks) : tasks[u].pc = "done" /\ tasks[u].result.kind = "dict" } }

ExportedEins == { Exported[k].ein : k \in 1..Len(Exported) }

\* C17 as stated: after an interrupt every organization whose processing had
\* returned a result is among the exported rows.
C17_NoResultLost ==
  run_pc \in {"interrupt_caught", "interrupt_cancelled"} => ReturnedEins \subseteq ExportedEins

(***************************************************************************)
(* Missing AI credentials at startup: C18 (under MainSpec)                 *)
(***************************************************************************)
\* scrape_async has been entered: a search request is due or was made.
RunStarted == run_pc \in {"paging", "collected", "dispatch", "batch", "done", "raised"}

\* C18: when AI parsing is selected and GOOGLE_AI_API_KEY is missing, the
\* construction of the scraper fails and the run never gets to a search
\* request or to the dispatch of an organization.
C18_FailsFast == ~env_api_key => ~RunStarted /\ last_fetch = NoFetch /\ tasks = <<>>

(***************************************************************************)
(* Rate-limit signals: C19 (under OrgSpec)                                 *)
(***************************************************************************)
\* The registry answered the detail request with HTTP 429.
DetailRateLimited == org_in.answer.kind = "429"

\* The registry answered a request for the document, the first one or the
\* alternative one after a 403, with HTTP 429.
DocumentRateLimited ==
  \/ "download" \in org_out.calls /\ org_in.first = "429"
  \/ "download_alt" \in org_out.calls /\ org_in.second = "429"

\* The AI parser was called and failed with a rate-limit message.
AiRateLimitedOrg ==
  /\ "ai" \in org_out.calls
  /\ ~org_in.ai.success
  /\ (org_in.ai.rate \/ org_in.ai.quota \/ org_in.ai.code429)

SurfacedAsRateLimit ==
  /\ org_out.result.kind = "dict"
  /\ org_out.result.data_source = "rate_limit"
  /\ CountedOnceAs("rate_limit")

\* C19: an organization that met a rate-limit signal (HTTP 429 on its detail
\* request or on a request for its document, or a rate-limit failure of the
\* AI parser) has a result with data_source "rate_limit", and
\* rate_limit_count, not error_count, is the counter raised for it.
C19_RateLimitDistinct ==
  (org_pc = "returned" /\ (DetailRateLimited \/ DocumentRateLimited \/ AiRateLimitedOrg))
    => SurfacedAsRateLimit

(***************************************************************************)
(* Bounded AI extraction: C20 (under RetrySpec)                            *)
(***************************************************************************)
\* parse_with_retry returned a failure with a rate-limit message.
RetryRateLimited ==
  /\ retry_pc \in {"returned", "extracted"}
  /\ ~retry_result.success
  /\ IsRateLimitMessage(retry_result)

\* C20: parse_with_retry calls parse_pdf_with_gemini at most MaxRetries + 1
\* (3) times; it goes on to another attempt only after a failure, so it
\* returns at the first success; a failure it returns is that of the last of
\* the MaxRetries + 1 attempts; and when the returned failure is a rate
\* limit, extract_financials_async returns rate_limit having called neither
\* the AI parser again nor the pattern parser.
C20_BoundedAttempts ==
  /\ tried <= MaxRetries + 1
  /\ requests <= 2 * tried
  /\ (retry_pc = "loop" /\ tried > 0) => ~retry_result.success
  /\ (retry_pc \in {"returned", "extracted"} /\ retry_result.success) => tried = attempt + 1
  /\ (retry_pc \in {"returned", "extracted"} /\ ~retry_result.success) => tried = MaxRetries + 1
  /\ (retry_pc = "extracted" /\ RetryRateLimited) =>
       /\ ex_out.error_type = "rate_limit"
       /\ ex_out.calls = {"download", "ai"}

\* All attempts were used, the last one failed with a rate limit, and
\* extract_financials_async has returned.
C20_Witness ==
  /\ retry_pc = "extracted"
  /\ tried = MaxRetries + 1
  /\ requests > tried
  /\ RetryRateLimited

(***************************************************************************)
(* Form version: C21 (under VersionSpec)                                   *)
(***************************************************************************)
\* C21: determine_form_version returns an era only when that era's count
\* of matching indicators is strictly higher than the other's, returns
\* unknown when both counts are zero, and parse_990_form uses the post-2008
\* pattern set for unknown.
C21_StrictlyHigherWins ==
  fp_pc = "returned" =>
    /\ fp_out.form_version = "post_2008" => fp_out.post_2008_score > fp_out.pre_2008_score
    /\ fp_out.form_version = "pre_2008" => fp_out.pre_2008_score > fp_out.post_2008_score
    /\ (fp_out.post_2008_score = 0 /\ fp_out.pre_2008_score = 0) => fp_out.form_version = "unknown"
    /\ fp_out.form_version = "unknown" => fp_out.patterns = "post_2008_patterns"

(***************************************************************************)
(* Confidence score: C22 (under ConfidenceSpec)                            *)
(***************************************************************************)
\* The weights of the fields that extract_financial_data attempts: every
\* scored field, found or not.
AttemptedWeight ==
  Weight.total_revenue + Weight.total_expenses + Weight.contributions_grants
  + Weight.program_service_revenue + Weight.executive_compensation
  + Weight.organization_name + Weight.tax_year

OnlyRevenueAndName ==
  /\ fp_in.total_revenue # None
  /\ fp_in.organization_name
  /\ fp_in.total_expenses = None
  /\ fp_in.contributions_grants = None
  /\ fp_in.program_service_revenue = None
  /\ ~fp_in.executive_compensation
  /\ ~fp_in.tax_year

\* C22: the score score / max_score lies in [0, 1], and with only total
\* revenue and organization name present it is (0.30 + 0.10) divided by the
\* sum of the weights of the fields attempted.
C22_ConfidenceScore ==
  fp_pc = "returned" =>
    /\ fp_out.max_score > 0
    /\ 0 <= fp_out.score
    /\ fp_out.score <= fp_out.max_score
    /\ OnlyRevenueAndName =>
         fp_out.score * AttemptedWeight
           = (Weight.total_revenue + Weight.organization_name) * fp_out.max_score

(***************************************************************************)
(* Normalization of a financial value: C23 (under CleanSpec)               *)
(***************************************************************************)
DigitOrder == <<"0", "1", "2", "3", "4", "5", "6", "7", "8", "9">>
DigitValue(c) == CHOOSE n \in 0..9 : DigitOrder[n + 1] = c

\* The number written by the digits a (no leading zeros) is greater than
\* the one written by b.
Greater(a, b) ==
  \/ Len(a) > Len(b)
  \/ /\ Len(a) = Len(b)
     /\ \E i \in 1..Len(a) :
          /\ DigitValue(a[i]) > DigitValue(b[i])
          /\ \A j \in 1..(i - 1) : a[j] = b[j]

\* What a string of digits, currency symbols, separators and blanks is
\* worth with the sign `neg`: its digits as a number, not extractable above
\* 10^12.
Normalized(neg, str) ==
  LET d == StripZeros(RemoveFormatting(str))
  IN IF Greater(d, Trillion) THEN None ELSE Float(neg, d)

Letters == {"x", "n", "a", "i", "f"}

Wrapped(str) == Len(str) >= 2 /\ Head(str) = "(" /\ str[Len(str)] = ")"

CleanedStr(str) == fp_pc = "returned" /\ fp_in = StrArg(str)

OrderedPatterns ==
  IF fp_in.form_version = "post_2008"
  THEN fp_in.total_revenue_part1 \o fp_in.total_revenue_part8
  ELSE fp_in.total_revenue

\* Pattern k has a match that survives normalization.
Survives(found, k) ==
  \E i \in 1..Len(found[k]) : clean_financial_value(StrArg(found[k][i])) # None

\* C24: the total revenue is the value of the first pattern of the ordered
\* list (Part I patterns, then Part VIII patterns, for a post-2008 form)
\* that has a surviving match, zero included; it is absent only when no
\* pattern has one.
C24_FirstSurvivingWins ==
  fp_pc = "returned" =>
    /\ (\A k \in 1..Len(OrderedPatterns) : ~Survives(OrderedPatterns, k)) => fp_out = None
    /\ \A k \in 1..Len(OrderedPatterns) :
         (Survives(OrderedPatterns, k) /\ \A j \in 1..(k - 1) : ~Survives(OrderedPatterns, j))
           => fp_out = FirstCleaned(OrderedPatterns[k], 1)

(***************************************************************************)
(* No failure is fatal to a run: C25 (under Spec)                          *)
(***************************************************************************)
\* C25: whatever the registry and the extraction collaborators answer,
\* scrape_async does not end with an exception; this includes the run whose
\* searches find no organization at all.
C25_RunNeverRaises == run_pc # "raised"

(***************************************************************************)
(* Malformed AI responses: C26 (under RetrySpec)                           *)
(***************************************************************************)
\* The answer of the AI service is an exception, or a text without a JSON
\* object, with malformed JSON, or with JSON that fails validation.
BadAnswer ==
  \/ last_answer.raises
  \/ last_answer.text.kind \in {"no_json", "malformed", "invalid_schema"}

\* C26: when the answer of the AI service that parse_with_retry ends with
\* is an exception or a text without a JSON object, with malformed JSON or
\* with JSON that fails schema validation, parse_with_retry returns a result
\* with success false and revenue and compensation None; such an answer is
\* never reported as a success, and in the loop it only leads to the next
\* attempt.
C26_BadResponseIsFailure ==
  (tried > 0 /\ BadAnswer) =>
    /\ ~retry_result.success
    /\ retry_result.total_revenue = None
    /\ retry_result.total_executive_compensation = None
    /\ retry_pc \in {"returned", "extracted"} => tried = MaxRetries + 1

\* parse_with_retry has returned after a last attempt whose File API
\* submission raised and whose direct submission gave JSON that fails
\* validation.
C26_Witness ==
  /\ retry_pc = "returned"
  /\ requests = 2 * tried
  /\ last_answer.text.kind = "invalid_schema"

(***************************************************************************)
(* The progress counters: C27 (under Spec)                                 *)
(***************************************************************************)
SourceCounts ==
  counters.api_count + counters.pdf_count + counters.na_count
  + counters.rate_limit_count + counters.error_count

\* The organizations whose process_organization_async has ended: those of
\* the batches before the current one, and the finished tasks of this one.
EndedOrgs == batch_lo + Cardinality({ t \in 1..Len(tasks) : tasks[t].pc = "done" })

\* C27: the five per-source counters always add up to completed_orgs, which
\* is the number of organizations processed so far (each was counted once,
\* whether it returned a row or ended in the exception branch) and never
\* exceeds total_orgs; when the last batch has completed, completed_orgs
\* equals total_orgs.
C27_CountersAddUp ==
  /\ SourceCounts = counters.completed_orgs
  /\ counters.completed_orgs <= counters.total_orgs
  /\ run_pc \in {"dispatch", "batch", "done"} =>
       /\ counters.total_orgs = Len(all_eins)
       /\ counters.completed_orgs = (IF run_pc = "batch" THEN EndedOrgs ELSE Len(results))
  /\ run_pc = "done" => counters.completed_orgs = counters.total_orgs

\* A run has ended in which one organization was counted in the exception
\* branch and another on the normal path, from its document.
C27_Witness ==
  /\ run_pc = "done"
  /\ counters.error_count > 0
  /\ counters.pdf_count > 0
  /\ counters.completed_orgs = counters.total_orgs

(***************************************************************************)
(* Slots are released on every path: C28 (under Spec)                      *)
(***************************************************************************)
\* A step of the batch under way.
BatchStep ==
  \/ \E t \in 1..Len(tasks) : AcquireApi(t)
  \/ \E t \in 1..Len(tasks) : DetailResponse(t)
  \/ \E t \in 1..Len(tasks) : AcquirePdf(t)
  \/ \E t \in 1..Len(tasks) : ExtractResponse(t)
  \/ FinishBatch

\* Tasks that are past their detail request.
PastApi == { t \in 1..Len(tasks) : tasks[t].pc \in {"pdf_wait", "in_pdf", "done"} }

\* C28: the registry slots in use are those of the tasks inside their detail
\* request and no others, so a task that waits for or holds a document slot
\* holds no registry slot; the document slots in use are those of the tasks
\* inside download and parsing; whenever no batch is under way both
\* semaphores are at full capacity; and a batch under way can always take a
\* step.
C28_SlotsReleased ==
  /\ MaxConcurrentApi - api_value = Cardinality(InApi)
  /\ MaxConcurrentApi - api_value <= Len(tasks) - Cardinality(PastApi)
  /\ MaxConcurrentPdf - pdf_value = Cardinality(InPdf)
  /\ run_pc # "batch" => api_value = MaxConcurrentApi /\ pdf_value = MaxConcurrentPdf
  /\ run_pc = "batch" => ENABLED BatchStep

\* A batch has completed in which one task ended in the exception branch
\* and another returned its row, and all slots are back.
C28_Witness ==
  /\ run_pc = "dispatch"
  /\ batch_lo > 0
  /\ api_value = MaxConcurrentApi
  /\ pdf_value = MaxConcurrentPdf
  /\ \E i, j \in 1..Len(results) : results[i].name = "Error" /\ results[j].name = "Org"

(***************************************************************************)
(* The none decision: C29 (under SelectorSpec)                             *)
(***************************************************************************)
EmptyHistory == sel_in.filings_with_data = <<>> /\ sel_in.filings_without_data = <<>>

\* C29: the selector returns the none decision (year 0, both values
\* unavailable) exactly when the filing history is empty; a history with a
\* filing, whatever its tax-period year (0 for a missing one), has a filing
\* selected and the decision is inline ("api") or document-required
\* ("pdf_needed").
C29_NoneOnlyWhenEmpty ==
  sel_pc = "returned" =>
    /\ EmptyHistory => sel_out = SelectorResult(0, NA, NA, "none")
    /\ ~EmptyHistory => /\ sel_pick.found
                        /\ sel_out.data_source \in {"api", "pdf_needed"}

(***************************************************************************)
(* The re-selection of the filing to parse: C30 (under OrgSpec)            *)
(***************************************************************************)
\* The filing that process_organization_async would hand to
\* extract_financials_async.
OrgReselected == FilingToParse(OrgHistory)

\* C30: the filing found by the one loop over the concatenated list is the
\* filing the selector chose, at the same place of the history and with the
\* same year; that year is the filing_year of the result; and
\* extract_financials_async is called only when the selector's decision is
\* pdf_needed.
C30_SameFilingReselected ==
  (org_pc = "returned" /\ org_in.answer.kind = "ok") =>
    /\ OrgReselected.found = OrgSelected.found
    /\ OrgReselected.found =>
         /\ OrgReselected.pos = OrgSelected.pos
         /\ OrgReselected.most_recent_filing = OrgSelected.most_recent_filing
         /\ OrgReselected.most_recent_year = OrgSelected.most_recent_year
    /\ org_out.extracted =>
         /\ OrgDecision.data_source = "pdf_needed"
         /\ OrgReselected.found
         /\ org_out.result.kind = "dict"
         /\ org_out.result.name = "Org" => org_out.result.filing_year = OrgReselected.most_recent_year

\* Both lists hold a filing of the same year; the structured one was
\* selected, it needs its document, and the extraction was called.
C30_Witness ==
  /\ org_pc = "returned"
  /\ org_in.answer.kind = "ok"
  /\ Len(OrgHistory.filings_with_data) = 1
  /\ Len(OrgHistory.filings_without_data) = 1
  /\ OrgHistory.filings_with_data[1].tax_prd_yr = OrgHistory.filings_without_data[1].tax_prd_yr
  /\ OrgSelected.pos = 1
  /\ org_out.extracted

====
